---- MODULE Spec2Model ----
(***************************************************************************)
(* OpenHDMapViewer (src/src/modules/openhd/OpenHDMapViewer.tsx): the load  *)
(* coordinator of the viewer (the URL-change effect, reloadWithLoadedFiles, *)
(* loadPointCloud, loadLanelet, createDirectionArrows and the React effects *)
(* around them) as a state machine, and its pure helpers                    *)
(* (parseProjectorYaml, parseMapConfigYaml, deriveUtmEpsgFromSample) as     *)
(* operators.                                                               *)
(***************************************************************************)
EXTENDS Integers, Sequences, FiniteSets, TLC

VARIABLES
    \* ---- props of the component (fixed for a run) ----
    vectorFlipY,        \* prop vectorFlipY
    mapOrigin,          \* prop mapOrigin (NoOrigin when absent)
    \* ---- React state and refs ----
    loadToken,          \* loadTokenRef.current
    loadedFiles,        \* state loadedFiles
    tempMapOrigin,      \* state tempMapOrigin
    cloudGroup,         \* cloudGroupRef children: the sequences whose cloud is mounted
    currentPoint,       \* currentPointRef / originalGeomRef (0 = null)
    vectorGroup,        \* vectorGroupRef children, as the batches of lines added
    directionGroup,     \* directionGroupRef children, as batches of arrows
    cachedWays,         \* cachedWaysRef (0 = [])
    cachedNodeMap,      \* cachedNodeMapRef (0 = empty map)
    normOrigin,         \* normOriginRef.current
    cloudFramePos,      \* cloudFrameRef.current.position
    projectorMeta,      \* state projectorMeta
    currentProjParams,  \* state currentProjParams
    showDirections,     \* state showDirections
    dirEffectPending,   \* the [showDirections, currentProjParams] effect is scheduled
    status,             \* state status
    isLoadingPointCloud, \* state isLoadingPointCloud
    isLoadingVectorMap, \* state isLoadingVectorMap
    \* ---- the asynchronous computations in flight ----
    seqs,               \* per load sequence (by token): position and closure values
    arrowRuns,          \* per createDirectionArrows call: position and locals
    \* ---- inputs and results of the pure helpers (separate specifications) ----
    fnArg,
    fnRes

mainVars == <<vectorFlipY, mapOrigin, loadToken, loadedFiles, tempMapOrigin,
              cloudGroup, currentPoint, vectorGroup, directionGroup, cachedWays,
              cachedNodeMap, normOrigin, cloudFramePos, projectorMeta,
              currentProjParams, showDirections, dirEffectPending, status,
              isLoadingPointCloud, isLoadingVectorMap, seqs, arrowRuns>>

vars == <<mainVars, fnArg, fnRes>>

(***************************************************************************)
(* Bounds of the model.                                                    *)
(***************************************************************************)
\* how many load sequences (tokens) a run starts
MaxLoads == 2
\* how many createDirectionArrows calls a run starts
MaxArrowRuns == 1
\* longest grid code given to deriveUtmEpsgFromSample
MaxCodeLen == 3

None == "none"

(***************************************************************************)
(* deriveUtmEpsgFromSample                                                 *)
(***************************************************************************)
\* the characters grid codes are built from, with their character codes
CharCode ==
    [c \in {"0", "4", "5", "9", "B", "C", "I", "S", "X", "Y", "s"} |->
        CASE c = "0" -> 48 [] c = "4" -> 52 [] c = "5" -> 53 [] c = "9" -> 57
          [] c = "B" -> 66 [] c = "C" -> 67 [] c = "I" -> 73 [] c = "S" -> 83
          [] c = "X" -> 88 [] c = "Y" -> 89 [] c = "s" -> 115]

Alphabet == DOMAIN CharCode

\* \d
IsDigit(c) == CharCode[c] >= 48 /\ CharCode[c] <= 57

\* [C-X] under the i flag
IsBandLetter(c) ==
    LET k == CharCode[c]
        u == IF k >= 97 /\ k <= 122 THEN k - 32 ELSE k
    IN u >= 67 /\ u <= 88

DigitValue(c) == CharCode[c] - 48

\* mgrsCode.match(/^(\d{1,2})[C-X]/i): the captured digits, or <<>> for no match.
\* The greedy quantifier tries two digits first, then one.
MatchZoneDigits(code) ==
    IF Len(code) >= 3 /\ IsDigit(code[1]) /\ IsDigit(code[2]) /\ IsBandLetter(code[3])
    THEN <<code[1], code[2]>>
    ELSE IF Len(code) >= 2 /\ IsDigit(code[1]) /\ IsBandLetter(code[2])
    THEN <<code[1]>>
    ELSE <<>>

\* parseInt(m[1], 10) of one or two digits
ParseInt(ds) ==
    IF Len(ds) = 1 THEN DigitValue(ds[1])
    ELSE 10 * DigitValue(ds[1]) + DigitValue(ds[2])

DigitChar(d) == CHOOSE c \in {"0", "1", "2", "3", "4", "5", "6", "7", "8", "9"} :
    c = CASE d = 0 -> "0" [] d = 1 -> "1" [] d = 2 -> "2" [] d = 3 -> "3"
          [] d = 4 -> "4" [] d = 5 -> "5" [] d = 6 -> "6" [] d = 7 -> "7"
          [] d = 8 -> "8" [] d = 9 -> "9"

RECURSIVE NatToString(_)
NatToString(n) ==
    IF n < 10 THEN <<DigitChar(n)>>
    ELSE NatToString(n \div 10) \o <<DigitChar(n % 10)>>

\* String(zone)
NumToString(n) == IF n < 0 THEN <<"-">> \o NatToString(-n) ELSE NatToString(n)

\* s.padStart(2, "0")
PadStart2(s) == IF Len(s) < 2 THEN <<"0">> \o s ELSE s

\* the hemisphere test with the equator counted as south
UtmNorthStrict(lat) == lat > 0
\* const north = lat >= 0
UtmNorth(lat) == lat >= 0

\* The identifier, as its prefix followed by the characters of the zone.  A grid
\* code is a sequence of characters; <<>> stands for both undefined and "".
deriveUtmEpsgFromSample(lat, lon, mgrsCode) ==
    LET m == IF mgrsCode # <<>> THEN MatchZoneDigits(mgrsCode) ELSE <<>>
        zone == IF m # <<>> THEN ParseInt(m) ELSE ((lon + 180) \div 6) + 1
    IN IF UtmNorth(lat)
       THEN <<"EPSG:326">> \o PadStart2(NumToString(zone))
       ELSE <<"EPSG:327">> \o PadStart2(NumToString(zone))

(***************************************************************************)
(* YAML helpers: parseProjectorYaml, the inline parse of the URL-change    *)
(* effect, parseMapConfigYaml.  A file is NoFile, ThrowingFile (file.text() *)
(* or yaml.load throws) or [kind |-> "doc", ...] with the fields of the     *)
(* parsed document (None or <<>> when a key is absent).                     *)
(***************************************************************************)
NoFile == [kind |-> "none"]
ThrowingFile == [kind |-> "throws"]

\* a || b on strings and undefined
OrElse(a, b) == IF a # None /\ a # "" THEN a ELSE b

\* a || b on grid codes
OrElseGrid(a, b) == IF a # <<>> THEN a ELSE b

\* the projector_type texts the model draws from, lower-cased (the i flag)
LowerCase ==
    [s \in {"", "Local", "local", "LOCAL", "MGRS", "mgrs", "UTM", "local2"} |->
        CASE s = "Local" -> "local" [] s = "LOCAL" -> "local" [] s = "MGRS" -> "mgrs"
          [] OTHER -> s]

ProjectorTexts == DOMAIN LowerCase

\* the if / else-if / else over /^local$/i and /^mgrs$/i of parseProjectorYaml
ProjectorOfText(proj, grid) ==
    IF LowerCase[proj] = "local" THEN [projector |-> "Local", mgrsGrid |-> <<>>]
    ELSE IF LowerCase[proj] = "mgrs" THEN [projector |-> "MGRS", mgrsGrid |-> grid]
    ELSE [projector |-> "Unknown", mgrsGrid |-> <<>>]

parseProjectorYaml(file) ==
    IF file.kind = "none" THEN [projector |-> "MGRS", mgrsGrid |-> <<>>]
    ELSE IF file.kind = "throws" THEN [projector |-> "MGRS", mgrsGrid |-> <<>>]
    ELSE LET proj == OrElse(file.projector_type, OrElse(file.projectorType, ""))
             grid == OrElseGrid(file.mgrs_grid, file.mgrsGrid)
         IN ProjectorOfText(proj, grid)

\* The URL-change effect's own parse of <base>/map_projector_info.yaml.  resp is
\* [kind |-> "fetchThrows"], [kind |-> "notOk"], or the file served.
UrlProjectorInfo(resp) ==
    IF resp.kind \in {"fetchThrows", "notOk", "throws"}
    THEN [projector |-> "MGRS", mgrsGrid |-> <<>>]
    ELSE LET proj == OrElse(resp.projector_type, "")
         IN [projector |-> IF LowerCase[proj] = "local" THEN "Local"
                           ELSE IF LowerCase[proj] = "mgrs" THEN "MGRS"
                           ELSE "Unknown",
             mgrsGrid |-> resp.mgrs_grid]

ProjectorDoc(pt, ptCamel, grid) ==
    [kind |-> "doc", projector_type |-> pt, projectorType |-> ptCamel,
     mgrs_grid |-> grid, mgrsGrid |-> <<>>]

\* a raw scalar of a document or of an XML attribute: a number, a non-numeric
\* text, or absent
Num(v) == [k |-> "num", v |-> v]
Junk == [k |-> "junk", v |-> 0]
Absent == [k |-> "absent", v |-> 0]

\* Number(x) || 0.0
NumberOrZero(raw) == IF raw.k = "num" THEN raw.v ELSE 0

\* null, as a MapOrigin
NoOrigin == [present |-> FALSE, lat |-> 0, lon |-> 0, ele |-> 0,
             roll |-> 0, pitch |-> 0, yaw |-> 0]

\* a map_origin entry of a document, and the absent entry
RawOrigin(lat, lon, ele) ==
    [given |-> TRUE, latitude |-> lat, longitude |-> lon, elevation |-> ele,
     roll |-> Absent, pitch |-> Absent, yaw |-> Absent]

NoRawOrigin ==
    [given |-> FALSE, latitude |-> Absent, longitude |-> Absent, elevation |-> Absent,
     roll |-> Absent, pitch |-> Absent, yaw |-> Absent]

\* the document of a map_config.yaml: the four places an origin is looked for
ConfigDoc(p1, p2, p3, p4) ==
    [kind |-> "doc", rosWildMapOrigin |-> p1, rosMapOrigin |-> p2,
     mapOrigin |-> p3, rosWildMapOriginCamel |-> p4]

\* "Coerce to numbers safely with fallbacks"
CoerceOrigin(origin) ==
    [present |-> TRUE,
     lat |-> NumberOrZero(origin.latitude),
     lon |-> NumberOrZero(origin.longitude),
     ele |-> NumberOrZero(origin.elevation),
     roll |-> NumberOrZero(origin.roll),
     pitch |-> NumberOrZero(origin.pitch),
     yaw |-> NumberOrZero(origin.yaw)]

parseMapConfigYaml(file) ==
    IF file.kind = "none" THEN NoOrigin
    ELSE IF file.kind = "throws" THEN NoOrigin
    ELSE LET origin ==
                 IF file.rosWildMapOrigin.given THEN file.rosWildMapOrigin
                 ELSE IF file.rosMapOrigin.given THEN file.rosMapOrigin
                 ELSE IF file.mapOrigin.given THEN file.mapOrigin
                 ELSE IF file.rosWildMapOriginCamel.given THEN file.rosWildMapOriginCamel
                 ELSE NoRawOrigin
         IN IF ~origin.given THEN NoOrigin ELSE CoerceOrigin(origin)

(***************************************************************************)
(* The vector map: the parsed OSM document, the node loop of loadLanelet   *)
(* (classification), origin resolution, normalization and the lines.       *)
(***************************************************************************)
NaN == [k |-> "nan", v |-> 0]

\* parseFloat of an attribute or tag value that is present
ParseFloat(raw) == IF raw.k = "num" THEN Num(raw.v) ELSE NaN

\* x != null
NotNull(w) == w.k # "absent"

\* an <node>: its id, its local_x / local_y / ele / mgrs_code tags and its lat /
\* lon attributes (Absent, <<>> when missing)
OsmNode(id, lx, ly, ele, code, lat, lon) ==
    [id |-> id, local_x |-> lx, local_y |-> ly, ele |-> ele, mgrs_code |-> code,
     lat |-> lat, lon |-> lon]

\* a <way>: hasNd is FALSE for a way without nd children
OsmWay(refs) == [hasNd |-> refs # <<>>, nd |-> refs]

NoEntry == [kind |-> "dropped", x |-> Absent, y |-> Absent, z |-> Num(0),
            lat |-> Absent, lon |-> Absent, mgrsCode |-> <<>>]

\* one pass of the node loop: what nodeMap.set stores (kind "dropped": nothing)
NodeEntry(n) ==
    LET x == IF NotNull(n.local_x) THEN ParseFloat(n.local_x) ELSE Absent
        y == IF NotNull(n.local_y) THEN ParseFloat(n.local_y) ELSE Absent
        z == IF NotNull(n.ele) THEN ParseFloat(n.ele) ELSE Num(0)
    IN IF NotNull(x) /\ NotNull(y)
       THEN [NoEntry EXCEPT !.kind = "local", !.x = x, !.y = y, !.z = z]
       ELSE IF NotNull(n.lat) /\ NotNull(n.lon)
       THEN [NoEntry EXCEPT !.kind = "geo", !.lat = ParseFloat(n.lat),
                            !.lon = ParseFloat(n.lon), !.z = z,
                            !.mgrsCode = n.mgrs_code]
       ELSE NoEntry

\* order: the keys of nodeMap in insertion order (the order Map.entries() yields)
EmptyClassification ==
    [nodeMap |-> <<>>, order |-> <<>>, hasLocal |-> FALSE, hasLatLon |-> FALSE,
     firstSet |-> FALSE, firstLat |-> Absent, firstLon |-> Absent,
     sampleMgrs |-> <<>>]

\* Map.set(id, e)
MapSet(m, id, e) == [k \in (DOMAIN m) \cup {id} |-> IF k = id THEN e ELSE m[k]]

\* the insertion order after Map.set(id, ...): a key already present keeps its place
OrderSet(m, order, id) == IF id \in DOMAIN m THEN order ELSE Append(order, id)

RECURSIVE ClassifyFrom(_, _, _)
ClassifyFrom(nodes, i, acc) ==
    IF i > Len(nodes) THEN acc
    ELSE LET e == NodeEntry(nodes[i])
             next ==
                 IF e.kind = "local"
                 THEN [acc EXCEPT !.hasLocal = TRUE,
                                  !.nodeMap = MapSet(acc.nodeMap, nodes[i].id, e),
                                  !.order = OrderSet(acc.nodeMap, acc.order, nodes[i].id)]
                 ELSE IF e.kind = "geo"
                 THEN [acc EXCEPT !.hasLatLon = TRUE,
                                  !.nodeMap = MapSet(acc.nodeMap, nodes[i].id, e),
                                  !.order = OrderSet(acc.nodeMap, acc.order, nodes[i].id),
                                  !.firstSet = TRUE,
                                  !.firstLat = IF acc.firstSet THEN acc.firstLat ELSE e.lat,
                                  !.firstLon = IF acc.firstSet THEN acc.firstLon ELSE e.lon,
                                  !.sampleMgrs = IF acc.firstSet THEN acc.sampleMgrs
                                                 ELSE e.mgrsCode]
                 ELSE acc
         IN ClassifyFrom(nodes, i + 1, next)

\* the node loop of loadLanelet
Classify(nodes) == ClassifyFrom(nodes, 1, EmptyClassification)

\* the prop-derived projection config, projectionMode = "identity" (the default)
IdentityProj == [mode |-> "identity", from |-> <<>>, to |-> <<>>]

\* the zone number and the hemisphere family an identifier "EPSG:326zz" /
\* "EPSG:327zz" names
DecimalDigit ==
    [c \in {"0", "1", "2", "3", "4", "5", "6", "7", "8", "9"} |->
        CASE c = "0" -> 0 [] c = "1" -> 1 [] c = "2" -> 2 [] c = "3" -> 3
          [] c = "4" -> 4 [] c = "5" -> 5 [] c = "6" -> 6 [] c = "7" -> 7
          [] c = "8" -> 8 [] c = "9" -> 9]

ZoneOfEpsg(to) == 10 * DecimalDigit[to[2]] + DecimalDigit[to[3]]

SouthOfEpsg(to) == to[1] = "EPSG:327"

\* proj4lib("EPSG:4326", to, [lon, lat]).  proj4 is an external library; an affine
\* map stands for the transverse Mercator projection: eastings are counted from
\* the central meridian of the target zone (6 * zone - 183 degrees), northings
\* from the equator, with a false northing in the southern family.
Proj4(to, lon, lat) ==
    <<10 * (lon - (6 * ZoneOfEpsg(to) - 183)) + 3,
      10 * lat - 2 + (IF SouthOfEpsg(to) THEN 1000 ELSE 0)>>

applyProjection(coord, cfg) ==
    IF cfg.mode = "identity" THEN coord
    ELSE LET p == Proj4(cfg.to, coord[1], coord[2])
         IN <<p[1], p[2], coord[3]>>

\* the "Geographic" branch is taken
IsGeographic(c) ==
    ~c.hasLocal /\ c.hasLatLon /\ NotNull(c.firstLat) /\ NotNull(c.firstLon)

\* the origin taken from the first entry alone
FirstProjected(nodeMap, order, cfg) ==
    IF order = <<>> THEN <<0, 0, 0, 0>>
    ELSE LET node == nodeMap[order[1]]
             p == applyProjection(<<node.lon.v, node.lat.v, node.z.v>>, cfg)
         IN <<p[1], p[2], p[3], 1>>

RECURSIVE SumProjected(_, _, _)
\* the loop over nodeMap.entries(): <<sumE, sumN, sumZ, count>> after the entries
\* of order, taken first to last
SumProjected(nodeMap, order, cfg) ==
    IF order = <<>> THEN <<0, 0, 0, 0>>
    ELSE LET sofar == SumProjected(nodeMap, SubSeq(order, 1, Len(order) - 1), cfg)
             node == nodeMap[order[Len(order)]]
         IN IF NotNull(node.lat) /\ NotNull(node.lon)
            THEN LET p == applyProjection(<<node.lon.v, node.lat.v, node.z.v>>, cfg)
                 IN <<sofar[1] + p[1], sofar[2] + p[2], sofar[3] + p[3], sofar[4] + 1>>
            ELSE sofar

\* mapOrigin || originOverride || tempMapOrigin
EffectiveMapOrigin(propOrigin, originOverride, tempOrigin) ==
    IF propOrigin.present THEN propOrigin
    ELSE IF originOverride.present THEN originOverride
    ELSE tempOrigin

\* "Compute normalization origin in UTM meters": the origin and its source
ResolveOrigin(nodeMap, order, cfg, propOrigin, originOverride, tempOrigin) ==
    LET eff == EffectiveMapOrigin(propOrigin, originOverride, tempOrigin)
    IN IF eff.present
       THEN LET p == applyProjection(<<eff.lon, eff.lat, eff.ele>>, cfg)
            IN [E0 |-> p[1], N0 |-> p[2], U0 |-> p[3],
                originSource |-> IF tempOrigin.present THEN "map_config (TEMP)"
                                 ELSE "map_config"]
       ELSE LET s == SumProjected(nodeMap, order, cfg)
            IN IF s[4] > 0
               THEN [E0 |-> s[1] \div s[4], N0 |-> s[2] \div s[4], U0 |-> s[3] \div s[4],
                     originSource |-> "centroid-fallback"]
               ELSE [E0 |-> 0, N0 |-> 0, U0 |-> 0, originSource |-> "none"]

\* the axis remap without the flip
RenderPointUnflipped(X, Y, Z, flipY) == <<X, Z, Y>>
\* "Map to viewer coordinates: x=E, y=Z, z=+-N (respecting vectorFlipY)"
RenderPoint(X, Y, Z, flipY) == <<X, Z, IF flipY THEN -Y ELSE Y>>

RECURSIVE WayPointsFrom(_, _, _, _, _, _, _)
WayPointsFrom(refs, j, nodeMap, hasLocal, usingProj4, cfg, info) ==
    IF j > Len(refs) THEN <<>>
    ELSE LET rest == WayPointsFrom(refs, j + 1, nodeMap, hasLocal, usingProj4, cfg, info)
         IN IF refs[j] \notin DOMAIN nodeMap THEN rest
            ELSE LET node == nodeMap[refs[j]]
                 IN IF hasLocal /\ NotNull(node.x)
                    THEN <<RenderPoint(node.x.v, node.y.v, node.z.v, info.flipY)>> \o rest
                    ELSE IF usingProj4 /\ NotNull(node.lat) /\ NotNull(node.lon)
                    THEN LET p == applyProjection(<<node.lon.v, node.lat.v, node.z.v>>, cfg)
                         IN <<RenderPoint(p[1] - info.E0, p[2] - info.N0, p[3] - info.U0,
                                          info.flipY)>> \o rest
                    ELSE rest

RECURSIVE LinesFrom(_, _, _, _, _, _, _)
LinesFrom(ways, i, nodeMap, hasLocal, usingProj4, cfg, info) ==
    IF i > Len(ways) THEN <<>>
    ELSE LET rest == LinesFrom(ways, i + 1, nodeMap, hasLocal, usingProj4, cfg, info)
             pts == WayPointsFrom(ways[i].nd, 1, nodeMap, hasLocal, usingProj4, cfg, info)
         IN IF ~ways[i].hasNd THEN rest
            ELSE IF Len(pts) > 1 THEN <<pts>> \o rest
            ELSE rest

\* The synchronous part of loadLanelet after the fetch, as a function of the
\* parsed document and of what the closure holds: classification, projection
\* choice and origin.  setsNormOrigin says whether normOriginRef is assigned.
LaneletResult(osm, yamlInfo, originOverride, tempOrigin, propOrigin) ==
    LET c == Classify(osm.nodes)
        geo == IsGeographic(c)
        utmEpsg == deriveUtmEpsgFromSample(c.firstLat.v, c.firstLon.v,
                                           OrElseGrid(yamlInfo.mgrsGrid, c.sampleMgrs))
        cfg == IF geo THEN [mode |-> "proj4", from |-> <<"EPSG:4326">>, to |-> utmEpsg]
               ELSE IdentityProj
        o == IF geo
             THEN ResolveOrigin(c.nodeMap, c.order, cfg, propOrigin, originOverride,
                                tempOrigin)
             ELSE [E0 |-> 0, N0 |-> 0, U0 |-> 0, originSource |-> "none"]
    IN [hasLocal |-> c.hasLocal, usingProj4 |-> geo, projForThisMap |-> cfg,
        utmEpsg |-> IF geo THEN utmEpsg ELSE <<>>,
        setsNormOrigin |-> geo, E0 |-> o.E0, N0 |-> o.N0, U0 |-> o.U0,
        originSource |-> o.originSource]

\* What the ways loop of loadLanelet adds to vectorGroupRef in one call: the lines
\* of a file, drawn with the call's projection and origin.  by is the load
\* sequence that made the call.
LineBatch(by, file, r) ==
    [by |-> by, file |-> file, hasLocal |-> r.hasLocal, usingProj4 |-> r.usingProj4,
     cfg |-> r.projForThisMap, E0 |-> r.E0, N0 |-> r.N0, U0 |-> r.U0]

(***************************************************************************)
(* createDirectionArrows: the loop over the ways, up to its next yield.    *)
(***************************************************************************)
\* const maxArrows = 100
MaxArrows == 100
\* if (arrowCount % 20 === 0) await ...
YieldEvery == 20
\* if (directDistance < 25) continue / if (totalLength < 25) continue
MinPathLength == 25
\* if (cloudMagnitude > 10000 && normOriginRef.current)
AlignThreshold == 10000

RECURSIVE ISqrt(_)
\* floor of the square root (exact on the perfect squares the datasets give)
ISqrt(n) ==
    IF n < 2 THEN n
    ELSE LET r == 2 * ISqrt(n \div 4)
         IN IF (r + 1) * (r + 1) <= n THEN r + 1 ELSE r

\* Vector3.distanceTo
DistanceTo(p, q) ==
    ISqrt((p[1] - q[1]) * (p[1] - q[1]) + (p[2] - q[2]) * (p[2] - q[2])
          + (p[3] - q[3]) * (p[3] - q[3]))

\* normOriginRef.current as the arrows and the alignment read it; by is the
\* load sequence that assigned it (0: null)
NoNorm == [set |-> FALSE, E0 |-> 0, N0 |-> 0, U0 |-> 0, by |-> 0]

RECURSIVE ArrowPointsFrom(_, _, _)
\* the inner loop over nd: ctx holds nodeMap, usingProj4, cfg, norm, flipY
ArrowPointsFrom(refs, j, ctx) ==
    IF j > Len(refs) THEN <<>>
    ELSE LET rest == ArrowPointsFrom(refs, j + 1, ctx)
         IN IF refs[j] \notin DOMAIN ctx.nodeMap THEN rest
            ELSE LET node == ctx.nodeMap[refs[j]]
                 IN IF NotNull(node.x) /\ NotNull(node.y)
                    THEN <<RenderPoint(node.x.v, node.y.v, node.z.v, ctx.flipY)>> \o rest
                    ELSE IF ctx.usingProj4 /\ NotNull(node.lat) /\ NotNull(node.lon)
                    THEN LET p == applyProjection(<<node.lon.v, node.lat.v, node.z.v>>,
                                                  ctx.cfg)
                         IN IF ctx.norm.set
                            THEN <<RenderPoint(p[1] - ctx.norm.E0, p[2] - ctx.norm.N0,
                                               p[3] - ctx.norm.U0, ctx.flipY)>> \o rest
                            ELSE <<RenderPoint(p[1], p[2], p[3], ctx.flipY)>> \o rest
                    ELSE rest

RECURSIVE PathLength(_, _)
PathLength(pts, i) ==
    IF i >= Len(pts) THEN 0
    ELSE DistanceTo(pts[i], pts[i + 1]) + PathLength(pts, i + 1)

\* the checks with a way of exactly the minimum length skipped
ArrowAdmittedStrict(pts) ==
    /\ Len(pts) >= 2
    /\ DistanceTo(pts[1], pts[Len(pts)]) > MinPathLength
    /\ PathLength(pts, 1) > MinPathLength
\* the three "continue" checks before an arrow is placed
ArrowAdmitted(pts) ==
    /\ Len(pts) >= 2
    /\ DistanceTo(pts[1], pts[Len(pts)]) >= MinPathLength
    /\ PathLength(pts, 1) >= MinPathLength

RECURSIVE ArrowLoop(_, _, _, _)
\* The for loop from way i with arrowCount arrows placed so far, until it ends,
\* breaks or yields; added lists the ways that got an arrow.
ArrowLoop(ctx, i, arrowCount, added) ==
    IF i > Len(ctx.ways)
    THEN [i |-> i, arrowCount |-> arrowCount, added |-> added, finished |-> TRUE]
    ELSE IF ~ctx.ways[i].hasNd \/ arrowCount >= MaxArrows
    THEN [i |-> i, arrowCount |-> arrowCount, added |-> added, finished |-> TRUE]
    ELSE IF ~ArrowAdmitted(ArrowPointsFrom(ctx.ways[i].nd, 1, ctx))
    THEN ArrowLoop(ctx, i + 1, arrowCount, added)
    ELSE IF (arrowCount + 1) % YieldEvery = 0
    THEN [i |-> i + 1, arrowCount |-> arrowCount + 1, added |-> Append(added, i),
          finished |-> FALSE]
    ELSE ArrowLoop(ctx, i + 1, arrowCount + 1, Append(added, i))

(***************************************************************************)
(* The files a run draws from, by name.                                    *)
(***************************************************************************)
\* how many ways the geographic map has (more than one batch of arrows)
GeoMapWays == 21

LocalMap ==
    [nodes |-> <<OsmNode(1, Num(0), Num(0), Absent, <<>>, Num(35), Num(139)),
                 OsmNode(2, Num(30), Num(0), Absent, <<>>, Num(35), Num(139))>>,
     ways |-> <<OsmWay(<<1, 2>>)>>]

GeoMap ==
    [nodes |-> <<OsmNode(1, Absent, Absent, Absent, <<>>, Num(35), Num(139)),
                 OsmNode(2, Absent, Absent, Absent, <<>>, Num(35), Num(143))>>,
     ways |-> [i \in 1..GeoMapWays |-> OsmWay(<<1, 2>>)]]

VectorFiles == {"local.osm", "geo.osm"}

\* parser.parse(xmlText)?.osm of a vector file
OsmOf(name) == IF name = "local.osm" THEN LocalMap ELSE GeoMap

\* the vertices of the lines of a batch, way by way
LinesOf(batch, flipY) ==
    LinesFrom(OsmOf(batch.file).ways, 1, Classify(OsmOf(batch.file).nodes).nodeMap,
              batch.hasLocal, batch.usingProj4, batch.cfg,
              [E0 |-> batch.E0, N0 |-> batch.N0, U0 |-> batch.U0, flipY |-> flipY])

CloudFiles == {"big.pcd"}

\* stats.cloudCentroid.length() of a loaded cloud
CloudMagnitude(name) == IF name = "big.pcd" THEN 20000 ELSE 50

ProjectorFiles == {"utm.yaml"}

ProjectorFileOf(name) ==
    IF name = "none" THEN NoFile ELSE ProjectorDoc("UTM", None, <<>>)

ConfigFiles == {"broken.yaml", "junk.yaml", "valid.yaml"}

ConfigFileOf(name) ==
    CASE name = "none" -> NoFile
      [] name = "broken.yaml" -> ThrowingFile
      [] name = "junk.yaml" ->
            ConfigDoc(RawOrigin(Junk, Junk, Absent), NoRawOrigin, NoRawOrigin, NoRawOrigin)
      [] OTHER ->
            ConfigDoc(RawOrigin(Num(36), Num(140), Num(0)), NoRawOrigin, NoRawOrigin,
                      NoRawOrigin)

\* what fetch(base + "map_projector_info.yaml") gives the URL-change effect
UrlProjectorResponses == {"notOk", "utm.yaml"}

UrlResponseOf(name) ==
    IF name = "notOk" THEN [kind |-> "notOk"] ELSE ProjectorDoc("UTM", None, <<>>)

\* the mapOrigin prop when the host passes one
PropOrigin == [present |-> TRUE, lat |-> 34, lon |-> 138, ele |-> 0,
               roll |-> 0, pitch |-> 0, yaw |-> 0]

NoFiles == [pointcloud |-> "none", vector |-> "none", mapProjectorInfo |-> "none",
            mapConfig |-> "none"]

(***************************************************************************)
(* The component: state after construction.                                *)
(***************************************************************************)
Tokens == 1..MaxLoads
Runs == 1..MaxArrowRuns

Zero3 == <<0, 0, 0>>

DefaultYamlInfo == [projector |-> "MGRS", mgrsGrid |-> <<>>]

\* a load sequence: its position, its closure values, and (for the properties
\* only, the code keeps no such values) whether a cloud and whether lines were
\* displayed when it started, and whether it returned at its last token check
IdleSeq == [pc |-> "idle", kind |-> "none", files |-> NoFiles,
            yamlInfo |-> DefaultYamlInfo, parsedMapConfig |-> NoOrigin,
            tempMapOrigin |-> NoOrigin, priorCloud |-> FALSE, priorLines |-> FALSE,
            atFit |-> FALSE]

NoCache == [by |-> 0, file |-> "none"]

NoProjParams == [usingProj4 |-> FALSE, projForThisMap |-> IdentityProj, by |-> 0]

\* a createDirectionArrows call: its arguments, its loop variables, and (for the
\* properties only, the code keeps no such values) the load token and the
\* normalization origin at its start
IdleRun == [pc |-> "idle", ways |-> NoCache, nodeMap |-> NoCache,
            params |-> NoProjParams, i |-> 1, arrowCount |-> 0, startedAt |-> 0,
            normAtStart |-> NoNorm]

InitMain ==
    /\ vectorFlipY \in BOOLEAN
    /\ mapOrigin \in {NoOrigin}
    /\ loadToken = 0
    /\ loadedFiles = NoFiles
    /\ tempMapOrigin = NoOrigin
    /\ cloudGroup = {}
    /\ currentPoint = 0
    /\ vectorGroup = {}
    /\ directionGroup = <<>>
    /\ cachedWays = NoCache
    /\ cachedNodeMap = NoCache
    /\ normOrigin = NoNorm
    /\ cloudFramePos = Zero3
    /\ projectorMeta = [projector |-> "Unknown", mgrsGrid |-> <<>>,
                        usingLocalTags |-> TRUE, usingProj4 |-> FALSE, utmEpsg |-> <<>>]
    /\ currentProjParams = NoProjParams
    /\ showDirections \in BOOLEAN
    /\ dirEffectPending = TRUE
    /\ status = "Initializing ..."
    /\ isLoadingPointCloud = FALSE
    /\ isLoadingVectorMap = FALSE
    /\ seqs = [t \in Tokens |-> IdleSeq]
    /\ arrowRuns = [r \in Runs |-> IdleRun]

\* no pure helper has been given an input: nothing in fnArg, nothing in fnRes
NoCall == <<>>

\* The component as the host mounts it with the default vectorFlipY = true (the
\* other value mirrors every state); the helpers on their own take both values.
Init == InitMain /\ vectorFlipY = TRUE /\ fnArg = NoCall /\ fnRes = NoCall

(***************************************************************************)
(* File picker and the Reload / Clear buttons.                             *)
(***************************************************************************)
\* no reloadWithLoadedFiles call is between its start and its return
NoReloadInFlight ==
    \A t \in Tokens :
        seqs[t].kind = "reload" => seqs[t].pc \in {"done", "abandoned", "failed"}

\* The model lets the user pick or clear files only between reloads: a reload in
\* flight reads its own snapshot of loadedFiles, which a later pick cannot change.
handleFileSelect(type, file) ==
    /\ NoReloadInFlight /\ loadToken < MaxLoads
    /\ loadedFiles' = [loadedFiles EXCEPT ![type] = file]
    /\ status' = "File loaded"
    /\ UNCHANGED <<vectorFlipY, mapOrigin, loadToken, tempMapOrigin, cloudGroup,
                   currentPoint, vectorGroup, directionGroup, cachedWays, cachedNodeMap,
                   normOrigin, cloudFramePos, projectorMeta, currentProjParams,
                   showDirections, dirEffectPending, seqs, arrowRuns, fnArg, fnRes>>
    /\ UNCHANGED <<isLoadingPointCloud, isLoadingVectorMap>>

SelectFile ==
    \/ \E f \in CloudFiles : handleFileSelect("pointcloud", f)
    \/ \E f \in VectorFiles : handleFileSelect("vector", f)
    \/ \E f \in ProjectorFiles : handleFileSelect("mapProjectorInfo", f)
    \/ \E f \in ConfigFiles : handleFileSelect("mapConfig", f)

clearLoadedFiles ==
    /\ NoReloadInFlight /\ loadToken < MaxLoads
    /\ loadedFiles' = NoFiles
    /\ tempMapOrigin' = NoOrigin
    /\ status' = "Loaded files cleared"
    /\ UNCHANGED <<vectorFlipY, mapOrigin, loadToken, cloudGroup,
                   currentPoint, vectorGroup, directionGroup, cachedWays, cachedNodeMap,
                   normOrigin, cloudFramePos, projectorMeta, currentProjParams,
                   showDirections, dirEffectPending, seqs, arrowRuns, fnArg, fnRes>>
    /\ UNCHANGED <<isLoadingPointCloud, isLoadingVectorMap>>

\* reloadWithLoadedFiles with no point cloud and no vector file loaded
ReloadWithoutFiles ==
    /\ loadedFiles.pointcloud = "none" /\ loadedFiles.vector = "none"
    /\ status' = "Please load at least one file first"
    /\ UNCHANGED <<vectorFlipY, mapOrigin, loadToken, loadedFiles, tempMapOrigin,
                   cloudGroup, currentPoint, vectorGroup, directionGroup, cachedWays,
                   cachedNodeMap, normOrigin, cloudFramePos, projectorMeta,
                   currentProjParams, showDirections, dirEffectPending, seqs, arrowRuns,
                   fnArg, fnRes>>
    /\ UNCHANGED <<isLoadingPointCloud, isLoadingVectorMap>>

\* reloadWithLoadedFiles up to its first await (parseProjectorYaml)
StartReload ==
    /\ loadToken < MaxLoads
    /\ loadedFiles.pointcloud # "none" \/ loadedFiles.vector # "none"
    /\ loadToken' = loadToken + 1
    /\ status' = "Reloading with new files..."
    /\ cloudFramePos' = Zero3
    /\ cloudGroup' = {}
    /\ vectorGroup' = {}
    /\ directionGroup' = <<>>
    /\ currentPoint' = 0
    /\ cachedWays' = NoCache
    /\ cachedNodeMap' = NoCache
    /\ normOrigin' = NoNorm
    /\ seqs' = [seqs EXCEPT ![loadToken + 1] =
                    [IdleSeq EXCEPT !.pc = "yaml", !.kind = "reload",
                                    !.files = loadedFiles,
                                    !.tempMapOrigin = tempMapOrigin,
                                    !.priorCloud = (cloudGroup # {}),
                                    !.priorLines = (vectorGroup # {})]]
    /\ UNCHANGED <<vectorFlipY, mapOrigin, loadedFiles, tempMapOrigin, projectorMeta,
                   currentProjParams, showDirections, dirEffectPending, arrowRuns,
                   fnArg, fnRes>>
    /\ UNCHANGED <<isLoadingPointCloud, isLoadingVectorMap>>

\* the [pointcloudUrl, vectorUrl, ...] effect up to its first await (the fetch of
\* map_projector_info.yaml), for URLs serving the given files
UrlEffect(pcd, vec, resp) ==
    /\ loadToken < MaxLoads
    /\ loadToken' = loadToken + 1
    /\ cloudFramePos' = Zero3
    /\ cloudGroup' = {}
    /\ vectorGroup' = {}
    /\ directionGroup' = <<>>
    /\ currentPoint' = 0
    /\ cachedWays' = NoCache
    /\ cachedNodeMap' = NoCache
    /\ normOrigin' = NoNorm
    /\ seqs' = [seqs EXCEPT ![loadToken + 1] =
                    [IdleSeq EXCEPT !.pc = "yaml", !.kind = "url",
                                    !.files = [pointcloud |-> pcd, vector |-> vec,
                                               mapProjectorInfo |-> resp,
                                               mapConfig |-> "none"],
                                    !.tempMapOrigin = tempMapOrigin,
                                    !.priorCloud = (cloudGroup # {}),
                                    !.priorLines = (vectorGroup # {})]]
    /\ UNCHANGED <<vectorFlipY, mapOrigin, loadedFiles, tempMapOrigin, projectorMeta,
                   currentProjParams, showDirections, dirEffectPending, status,
                   arrowRuns, fnArg, fnRes>>
    /\ UNCHANGED <<isLoadingPointCloud, isLoadingVectorMap>>

UrlChange ==
    \E pcd \in CloudFiles, vec \in VectorFiles, resp \in UrlProjectorResponses :
        UrlEffect(pcd, vec, resp)

(***************************************************************************)
(* The load sequences after their awaits.  A step is the code from the     *)
(* resumption of one await to the next await: the rest of the callee, the  *)
(* caller's token check, and the synchronous head of the next call.        *)
(***************************************************************************)
\* a sequence that has returned: its closure is gone
Returned(q, pc) == [IdleSeq EXCEPT !.pc = pc, !.kind = q.kind, !.atFit = (q.pc = "fit")]

\* `if (myToken !== loadTokenRef.current) return`
Abandon(t) == seqs' = [seqs EXCEPT ![t] = Returned(seqs[t], "abandoned")]

\* the alignment with a cloud of exactly the threshold magnitude translated too
AlignedCloudFrameInclusive(magnitude, norm, flipY, pos) ==
    IF magnitude >= AlignThreshold /\ norm.set
    THEN <<-norm.E0, -norm.U0, IF flipY THEN norm.N0 ELSE -norm.N0>>
    ELSE pos
\* "PCD alignment": cloudFrameRef.current.position after the alignment block
AlignedCloudFrame(magnitude, norm, flipY, pos) ==
    IF magnitude > AlignThreshold /\ norm.set
    THEN <<-norm.E0, -norm.U0, IF flipY THEN norm.N0 ELSE -norm.N0>>
    ELSE pos

\* reloadWithLoadedFiles after `await parseProjectorYaml(...)`
ReloadAfterProjectorYaml(t) ==
    /\ seqs[t].pc = "yaml" /\ seqs[t].kind = "reload"
    /\ LET yamlInfo == parseProjectorYaml(ProjectorFileOf(seqs[t].files.mapProjectorInfo))
       IN IF t # loadToken
          THEN Abandon(t) /\ UNCHANGED projectorMeta
          ELSE /\ projectorMeta' = [projectorMeta EXCEPT !.projector = yamlInfo.projector,
                                                         !.mgrsGrid = yamlInfo.mgrsGrid]
               /\ seqs' = [seqs EXCEPT ![t].pc = "cfg", ![t].yamlInfo = yamlInfo]
    /\ UNCHANGED <<vectorFlipY, mapOrigin, loadToken, loadedFiles, tempMapOrigin,
                   cloudGroup, currentPoint, vectorGroup, directionGroup, cachedWays,
                   cachedNodeMap, normOrigin, cloudFramePos, currentProjParams,
                   showDirections, dirEffectPending, status, arrowRuns, fnArg, fnRes>>
    /\ UNCHANGED <<isLoadingPointCloud, isLoadingVectorMap>>

\* reloadWithLoadedFiles after `await parseMapConfigYaml(...)`, into loadPointCloud
\* (up to loader.loadAsync) or, with no point cloud file, into loadLanelet (up to
\* the fetch)
ReloadAfterMapConfig(t) ==
    /\ seqs[t].pc = "cfg"
    /\ LET parsed == parseMapConfigYaml(ConfigFileOf(seqs[t].files.mapConfig))
       IN IF t # loadToken
          THEN /\ Abandon(t)
               /\ UNCHANGED <<tempMapOrigin, cloudGroup, currentPoint, vectorGroup,
                              directionGroup, showDirections, dirEffectPending, status>>
          ELSE IF seqs[t].files.pointcloud # "none"
          THEN /\ tempMapOrigin' = parsed
               /\ status' = "Loading point cloud"
               /\ cloudGroup' = {}
               /\ currentPoint' = 0
               /\ seqs' = [seqs EXCEPT ![t].pc = "pcd", ![t].parsedMapConfig = parsed]
               /\ UNCHANGED <<vectorGroup, directionGroup, showDirections,
                              dirEffectPending>>
          ELSE /\ tempMapOrigin' = parsed
               /\ status' = "Loading vector map"
               /\ vectorGroup' = {}
               /\ directionGroup' = <<>>
               /\ showDirections' = FALSE
               /\ dirEffectPending' = (dirEffectPending \/ showDirections)
               /\ seqs' = [seqs EXCEPT ![t].pc = "osm", ![t].parsedMapConfig = parsed]
               /\ UNCHANGED <<cloudGroup, currentPoint>>
    /\ UNCHANGED <<vectorFlipY, mapOrigin, loadToken, loadedFiles, cachedWays,
                   cachedNodeMap, normOrigin, cloudFramePos, projectorMeta,
                   currentProjParams, arrowRuns, fnArg, fnRes>>
    /\ isLoadingPointCloud' = IF t = loadToken /\ seqs[t].files.pointcloud # "none"
                              THEN TRUE ELSE isLoadingPointCloud
    /\ isLoadingVectorMap' = IF t = loadToken /\ seqs[t].files.pointcloud = "none"
                             THEN TRUE ELSE isLoadingVectorMap

\* the URL-change effect after the fetch and parse of map_projector_info.yaml, into
\* loadPointCloud (up to loader.loadAsync)
UrlAfterProjectorYaml(t) ==
    /\ seqs[t].pc = "yaml" /\ seqs[t].kind = "url"
    /\ LET yamlInfo == UrlProjectorInfo(UrlResponseOf(seqs[t].files.mapProjectorInfo))
       IN IF t # loadToken
          THEN /\ Abandon(t)
               /\ UNCHANGED <<cloudGroup, currentPoint, status>>
          ELSE /\ status' = "Loading point cloud"
               /\ cloudGroup' = {}
               /\ currentPoint' = 0
               /\ seqs' = [seqs EXCEPT ![t].pc = "pcd", ![t].yamlInfo = yamlInfo]
    /\ UNCHANGED <<vectorFlipY, mapOrigin, loadToken, loadedFiles, tempMapOrigin,
                   vectorGroup, directionGroup, cachedWays, cachedNodeMap, normOrigin,
                   cloudFramePos, projectorMeta, currentProjParams, showDirections,
                   dirEffectPending, arrowRuns, fnArg, fnRes>>
    /\ isLoadingPointCloud' = IF t = loadToken THEN TRUE ELSE isLoadingPointCloud
    /\ UNCHANGED isLoadingVectorMap

\* loadPointCloud after `await loader.loadAsync(url)` to its end, then the caller:
\* its token check and, with a vector map to load, loadLanelet up to the fetch
AfterPointCloud(t) ==
    /\ seqs[t].pc = "pcd"
    /\ currentPoint' = t
    /\ cloudGroup' = cloudGroup \cup {[by |-> t, file |-> seqs[t].files.pointcloud]}
    /\ cloudFramePos' = AlignedCloudFrame(CloudMagnitude(seqs[t].files.pointcloud),
                                          normOrigin, vectorFlipY, cloudFramePos)
    /\ IF t # loadToken
       THEN /\ Abandon(t)
            /\ status' = "Point cloud loaded."
            /\ UNCHANGED <<vectorGroup, directionGroup, showDirections, dirEffectPending>>
       ELSE IF seqs[t].files.vector # "none"
       THEN /\ status' = "Loading vector map"
            /\ vectorGroup' = {}
            /\ directionGroup' = <<>>
            /\ showDirections' = FALSE
            /\ dirEffectPending' = (dirEffectPending \/ showDirections)
            /\ seqs' = [seqs EXCEPT ![t].pc = "osm"]
       ELSE /\ status' = "Point cloud loaded."
            /\ seqs' = [seqs EXCEPT ![t].pc = "fit"]
            /\ UNCHANGED <<vectorGroup, directionGroup, showDirections, dirEffectPending>>
    /\ UNCHANGED <<vectorFlipY, mapOrigin, loadToken, loadedFiles, tempMapOrigin,
                   cachedWays, cachedNodeMap, normOrigin, projectorMeta,
                   currentProjParams, arrowRuns, fnArg, fnRes>>
    /\ isLoadingPointCloud' = FALSE
    /\ isLoadingVectorMap' = IF t = loadToken /\ seqs[t].files.vector # "none"
                             THEN TRUE ELSE isLoadingVectorMap

\* An exception out of loadPointCloud or loadLanelet at the caller: the catch of
\* reloadWithLoadedFiles sets the status; the URL-change effect has no handler
Thrown(t) ==
    /\ seqs' = [seqs EXCEPT ![t] = Returned(seqs[t], "failed")]
    /\ status' = IF seqs[t].kind = "reload" THEN "Error reloading map" ELSE status

\* `await loader.loadAsync(url)` rejects: the point cloud cannot be fetched or
\* parsed
FailPointCloud(t) ==
    /\ seqs[t].pc = "pcd"
    /\ Thrown(t)
    /\ UNCHANGED <<vectorFlipY, mapOrigin, loadToken, loadedFiles, tempMapOrigin,
                   cloudGroup, currentPoint, vectorGroup, directionGroup, cachedWays,
                   cachedNodeMap, normOrigin, cloudFramePos, projectorMeta,
                   currentProjParams, showDirections, dirEffectPending, arrowRuns,
                   fnArg, fnRes>>
    /\ isLoadingPointCloud' = FALSE
    /\ UNCHANGED isLoadingVectorMap

\* `await fetch(url)` rejects, or the text is no OSM document (osm is undefined
\* and `osm.node` throws)
FailLanelet(t) ==
    /\ seqs[t].pc = "osm"
    /\ Thrown(t)
    /\ UNCHANGED <<vectorFlipY, mapOrigin, loadToken, loadedFiles, tempMapOrigin,
                   cloudGroup, currentPoint, vectorGroup, directionGroup, cachedWays,
                   cachedNodeMap, normOrigin, cloudFramePos, projectorMeta,
                   currentProjParams, showDirections, dirEffectPending, arrowRuns,
                   fnArg, fnRes>>
    /\ isLoadingVectorMap' = FALSE
    /\ UNCHANGED isLoadingPointCloud

\* the originOverride argument: parsedMapConfig ?? null on the reload path,
\* omitted on the URL path
OriginOverrideOf(q) == IF q.kind = "reload" THEN q.parsedMapConfig ELSE NoOrigin

\* what loadLanelet computes for sequence t
LaneletOf(t) ==
    LaneletResult(OsmOf(seqs[t].files.vector), seqs[t].yamlInfo,
                  OriginOverrideOf(seqs[t]), seqs[t].tempMapOrigin, mapOrigin)

\* loadLanelet after `await (await fetch(url)).text()` to its end, then the
\* caller's token check
AfterLanelet(t) ==
    /\ seqs[t].pc = "osm"
    /\ \E r \in {LaneletOf(t)} :
          /\ normOrigin' = IF r.setsNormOrigin
                           THEN [set |-> TRUE, E0 |-> r.E0, N0 |-> r.N0, U0 |-> r.U0,
                                 by |-> t]
                           ELSE normOrigin
          /\ projectorMeta' = [projector |-> seqs[t].yamlInfo.projector,
                               mgrsGrid |-> OrElseGrid(seqs[t].yamlInfo.mgrsGrid,
                                                       projectorMeta.mgrsGrid),
                               usingLocalTags |-> r.hasLocal,
                               usingProj4 |-> r.usingProj4,
                               utmEpsg |-> r.utmEpsg]
          /\ currentProjParams' = [usingProj4 |-> r.usingProj4,
                                   projForThisMap |-> r.projForThisMap, by |-> t]
          /\ dirEffectPending' = TRUE
          /\ cachedWays' = [by |-> t, file |-> seqs[t].files.vector]
          /\ cachedNodeMap' = [by |-> t, file |-> seqs[t].files.vector]
          /\ vectorGroup' = vectorGroup \cup {LineBatch(t, seqs[t].files.vector, r)}
          /\ status' = "Vector map loaded."
    /\ IF t # loadToken
       THEN Abandon(t)
       ELSE seqs' = [seqs EXCEPT ![t].pc = "fit"]
    /\ UNCHANGED <<vectorFlipY, mapOrigin, loadToken, loadedFiles, tempMapOrigin,
                   cloudGroup, currentPoint, directionGroup, cloudFramePos,
                   showDirections, arrowRuns, fnArg, fnRes>>
    /\ isLoadingVectorMap' = FALSE
    /\ UNCHANGED isLoadingPointCloud

\* the step after `await Promise.resolve()` without its token check
AfterFitDelayUnchecked(t) ==
    /\ seqs[t].pc = "fit"
    /\ seqs' = [seqs EXCEPT ![t] = Returned(seqs[t], "done")]
    /\ status' = IF seqs[t].kind = "reload" THEN "Map reloaded successfully!"
                 ELSE status
    /\ UNCHANGED <<vectorFlipY, mapOrigin, loadToken, loadedFiles, tempMapOrigin,
                   cloudGroup, currentPoint, vectorGroup, directionGroup, cachedWays,
                   cachedNodeMap, normOrigin, cloudFramePos, projectorMeta,
                   currentProjParams, showDirections, dirEffectPending, arrowRuns,
                   fnArg, fnRes>>
    /\ UNCHANGED <<isLoadingPointCloud, isLoadingVectorMap>>
\* after `await Promise.resolve()`: the token check, fitSceneToContents (pc
\* "done": the sequence has called it) and, on the reload path, the final status
AfterFitDelay(t) ==
    /\ seqs[t].pc = "fit"
    /\ IF t # loadToken
       THEN Abandon(t) /\ UNCHANGED status
       ELSE /\ seqs' = [seqs EXCEPT ![t] = Returned(seqs[t], "done")]
            /\ status' = IF seqs[t].kind = "reload" THEN "Map reloaded successfully!"
                         ELSE status
    /\ UNCHANGED <<vectorFlipY, mapOrigin, loadToken, loadedFiles, tempMapOrigin,
                   cloudGroup, currentPoint, vectorGroup, directionGroup, cachedWays,
                   cachedNodeMap, normOrigin, cloudFramePos, projectorMeta,
                   currentProjParams, showDirections, dirEffectPending, arrowRuns,
                   fnArg, fnRes>>
    /\ UNCHANGED <<isLoadingPointCloud, isLoadingVectorMap>>

(***************************************************************************)
(* The "Line Directions" checkbox, the effect that starts                  *)
(* createDirectionArrows, and the resumption of a run after its yield.     *)
(***************************************************************************)
\* onChange of the checkbox: setShowDirections(e.target.checked)
ToggleShowDirections ==
    /\ showDirections' = ~showDirections
    /\ dirEffectPending' = TRUE
    /\ UNCHANGED <<vectorFlipY, mapOrigin, loadToken, loadedFiles, tempMapOrigin,
                   cloudGroup, currentPoint, vectorGroup, directionGroup, cachedWays,
                   cachedNodeMap, normOrigin, cloudFramePos, projectorMeta,
                   currentProjParams, status, seqs, arrowRuns, fnArg, fnRes>>
    /\ UNCHANGED <<isLoadingPointCloud, isLoadingVectorMap>>

\* the arguments and refs one batch of createDirectionArrows reads
ArrowContext(run, norm, flipY) ==
    [ways |-> OsmOf(run.ways.file).ways,
     nodeMap |-> Classify(OsmOf(run.nodeMap.file).nodes).nodeMap,
     usingProj4 |-> run.params.usingProj4,
     cfg |-> run.params.projForThisMap,
     norm |-> norm, flipY |-> flipY]

\* directionGroupRef after a batch: the arrows added, with the ways they were
\* computed from and the normalization origin they were shifted by
WithArrows(group, run, norm, added) ==
    IF added = <<>> THEN group
    ELSE Append(group, [ways |-> run.ways.by, file |-> run.ways.file,
                        norm |-> IF run.params.usingProj4 THEN norm ELSE NoNorm,
                        idx |-> added])

FreeRun == CHOOSE r \in Runs : arrowRuns[r].pc = "idle"

\* the [showDirections, currentProjParams] effect: it starts createDirectionArrows,
\* which runs to its first yield or to its end
DirectionsEffect ==
    /\ dirEffectPending
    /\ dirEffectPending' = FALSE
    /\ IF showDirections /\ directionGroup = <<>> /\ cachedWays.by # 0
       THEN /\ \E r \in Runs : arrowRuns[r].pc = "idle"
            /\ LET run == [IdleRun EXCEPT !.ways = cachedWays, !.nodeMap = cachedNodeMap,
                                          !.params = currentProjParams,
                                          !.startedAt = loadToken,
                                          !.normAtStart = normOrigin]
               IN \E b \in {ArrowLoop(ArrowContext(run, normOrigin, vectorFlipY), 1, 0, <<>>)} :
                  /\ directionGroup' = WithArrows(directionGroup, run, normOrigin, b.added)
                  /\ IF b.finished
                     THEN /\ status' = "Direction arrows created."
                          /\ UNCHANGED arrowRuns
                     ELSE /\ status' = "Creating direction arrows..."
                          /\ arrowRuns' = [arrowRuns EXCEPT ![FreeRun] =
                                 [run EXCEPT !.pc = "yield", !.i = b.i,
                                             !.arrowCount = b.arrowCount]]
       ELSE UNCHANGED <<directionGroup, status, arrowRuns>>
    /\ UNCHANGED <<vectorFlipY, mapOrigin, loadToken, loadedFiles, tempMapOrigin,
                   cloudGroup, currentPoint, vectorGroup, cachedWays, cachedNodeMap,
                   normOrigin, cloudFramePos, projectorMeta, currentProjParams,
                   showDirections, seqs, fnArg, fnRes>>
    /\ UNCHANGED <<isLoadingPointCloud, isLoadingVectorMap>>

\* createDirectionArrows after `await new Promise(resolve => setTimeout(resolve, 0))`
ArrowResume(r) ==
    /\ arrowRuns[r].pc = "yield"
    /\ LET run == arrowRuns[r]
       IN \E b \in {ArrowLoop(ArrowContext(run, normOrigin, vectorFlipY), run.i,
                               run.arrowCount, <<>>)} :
          /\ directionGroup' = WithArrows(directionGroup, run, normOrigin, b.added)
          /\ IF b.finished
             THEN /\ status' = "Direction arrows created."
                  /\ arrowRuns' = [arrowRuns EXCEPT ![r] = IdleRun]
             ELSE /\ arrowRuns' = [arrowRuns EXCEPT ![r].i = b.i,
                                                    ![r].arrowCount = b.arrowCount]
                  /\ UNCHANGED status
    /\ UNCHANGED <<vectorFlipY, mapOrigin, loadToken, loadedFiles, tempMapOrigin,
                   cloudGroup, currentPoint, vectorGroup, cachedWays, cachedNodeMap,
                   normOrigin, cloudFramePos, projectorMeta, currentProjParams,
                   showDirections, dirEffectPending, seqs, fnArg, fnRes>>
    /\ UNCHANGED <<isLoadingPointCloud, isLoadingVectorMap>>

Next ==
    \/ SelectFile
    \/ clearLoadedFiles
    \/ ReloadWithoutFiles
    \/ StartReload
    \/ UrlChange
    \/ \E t \in Tokens : ReloadAfterProjectorYaml(t)
    \/ \E t \in Tokens : ReloadAfterMapConfig(t)
    \/ \E t \in Tokens : UrlAfterProjectorYaml(t)
    \/ \E t \in Tokens : AfterPointCloud(t)
    \/ \E t \in Tokens : AfterLanelet(t)
    \/ \E t \in Tokens : AfterFitDelay(t)
    \/ \E t \in Tokens : FailPointCloud(t)
    \/ \E t \in Tokens : FailLanelet(t)
    \/ ToggleShowDirections
    \/ DirectionsEffect
    \/ \E r \in Runs : ArrowResume(r)

Spec == Init /\ [][Next]_vars

(***************************************************************************)
(* deriveUtmEpsgFromSample on its own: every sample of the sets below is   *)
(* given to the function once.                                             *)
(***************************************************************************)
Latitudes == {-35, -1, 0, 35}
Longitudes == {-180, -1, 0, 139, 180}

\* the grid codes of up to MaxCodeLen characters (<<>>: absent or empty); the
\* pattern is anchored at the start, so "54S" stands for "54SVE12345678"
GridCodes == UNION {[1..n -> Alphabet] : n \in 0..MaxCodeLen}

InitUtm ==
    /\ InitMain
    /\ vectorFlipY = TRUE /\ showDirections = FALSE
    /\ fnArg \in {[fn |-> "utm", lat |-> a, lon |-> o, code |-> c] :
                     a \in Latitudes, o \in Longitudes, c \in GridCodes}
    /\ fnRes = NoCall

ApplyUtm ==
    /\ fnArg # NoCall /\ fnRes = NoCall
    /\ fnRes' = <<deriveUtmEpsgFromSample(fnArg.lat, fnArg.lon, fnArg.code)>>
    /\ UNCHANGED <<mainVars, fnArg>>

SpecUtm == InitUtm /\ [][ApplyUtm]_vars

\* the digits and the letters C..X (either case) among the characters of Alphabet
DigitOf == [c \in {"0", "4", "5", "9"} |->
               CASE c = "0" -> 0 [] c = "4" -> 4 [] c = "5" -> 5 [] c = "9" -> 9]
BandLetters == {"C", "I", "S", "X", "s"}

\* the zone of a grid code that starts with one or two digits and a band letter,
\* and 0 - 1 for any other code
ZoneOfCode(code) ==
    IF Len(code) >= 3 /\ code[1] \in DOMAIN DigitOf /\ code[2] \in DOMAIN DigitOf
                      /\ code[3] \in BandLetters
    THEN 10 * DigitOf[code[1]] + DigitOf[code[2]]
    ELSE IF Len(code) >= 2 /\ code[1] \in DOMAIN DigitOf /\ code[2] \in BandLetters
    THEN DigitOf[code[1]]
    ELSE 0 - 1

ProjectorKeys == ProjectorTexts \cup {None}

ProjectorDocs ==
    {ProjectorDoc(pt, ptc, g) : pt \in ProjectorKeys, ptc \in ProjectorKeys,
                                g \in {<<>>, <<"5", "4", "S">>}}

InitProjector ==
    /\ InitMain
    /\ vectorFlipY = TRUE /\ showDirections = FALSE
    /\ fnArg \in {[fn |-> "projector", path |-> "reload", file |-> f] :
                     f \in {NoFile, ThrowingFile} \cup ProjectorDocs}
                 \cup {[fn |-> "projector", path |-> "url", file |-> f] :
                     f \in {[kind |-> "fetchThrows"], [kind |-> "notOk"], ThrowingFile}
                           \cup ProjectorDocs}
    /\ fnRes = NoCall

ApplyParseProjectorYaml ==
    /\ fnArg # NoCall /\ fnRes = NoCall
    /\ fnArg.path = "reload"
    /\ fnRes' = <<parseProjectorYaml(fnArg.file)>>
    /\ UNCHANGED <<mainVars, fnArg>>

ApplyUrlProjectorInfo ==
    /\ fnArg # NoCall /\ fnRes = NoCall
    /\ fnArg.path = "url"
    /\ fnRes' = <<UrlProjectorInfo(fnArg.file)>>
    /\ UNCHANGED <<mainVars, fnArg>>

NextProjector == ApplyParseProjectorYaml \/ ApplyUrlProjectorInfo

SpecProjector == InitProjector /\ [][NextProjector]_vars

\* a projector_type value that names Local or MGRS, in any letter case
NamesProjector(text) == text \in {"Local", "local", "LOCAL", "MGRS", "mgrs"}

\* C10: the resolved projector type is MGRS whenever map_projector_info.yaml is
\* missing, cannot be fetched, fails to parse, or is invalid (neither of its
\* projector-type keys names Local or MGRS), on both load paths.
C10_ProjectorDefaultsToMgrs ==
    (/\ fnRes # NoCall
     /\ \/ fnArg.file.kind \in {"none", "fetchThrows", "notOk", "throws"}
        \/ /\ fnArg.file.kind = "doc"
           /\ ~NamesProjector(fnArg.file.projector_type)
           /\ ~NamesProjector(fnArg.file.projectorType))
    => fnRes[1].projector = "MGRS"

(***************************************************************************)
(* Properties of the load sequences and of the arrow runs.                 *)
(***************************************************************************)
\* the positions at which a load sequence waits on an await
Suspended == {"yaml", "cfg", "pcd", "osm", "fit"}

\* the shared state the load sequences write
SharedState == <<cloudGroup, vectorGroup, directionGroup, currentPoint, cachedWays,
                 cachedNodeMap, normOrigin, cloudFramePos, projectorMeta, status>>

\* what is mounted, cached and stored comes from load sequence t alone
ReflectsOnly(t) ==
    /\ \A c \in cloudGroup : c.by = t
    /\ \A b \in vectorGroup : b.by = t
    /\ currentPoint \in {0, t}
    /\ cachedWays.by \in {0, t} /\ cachedNodeMap.by \in {0, t}
    /\ normOrigin.by \in {0, t}

\* C1: a load sequence that resumes from an await after a newer sequence has taken
\* the token writes nothing to the shared state, and once every sequence has
\* returned the state reflects only the newest one.
C1_SupersededSequenceWritesNothing ==
    [][/\ \A t \in Tokens :
            (seqs[t].pc \in Suspended /\ t < loadToken /\ seqs'[t] # seqs[t])
                => UNCHANGED SharedState
       /\ (\A t \in Tokens : seqs'[t].pc \notin Suspended) => ReflectsOnly(loadToken)'
      ]_vars

\* C2: a createDirectionArrows run that is waiting at a yield when a newer reload
\* starts adds no indicator when it resumes.
C2_SupersededArrowRunAddsNothing ==
    [][\A r \in Runs :
           (arrowRuns[r].pc = "yield" /\ arrowRuns[r].startedAt < loadToken
               /\ arrowRuns'[r] # arrowRuns[r])
           => directionGroup' = directionGroup
      ]_vars

\* C3: in every state the lines of the vector layer come from one load sequence,
\* the cloud layer holds at most one cloud, and the cached ways, the cached node
\* map and the normalization origin belong to the sequence of the lines.
C3_NoMixedLayers ==
    /\ Cardinality({b.by : b \in vectorGroup}) <= 1
    /\ Cardinality(cloudGroup) <= 1
    /\ \A b \in vectorGroup :
           cachedWays.by = b.by /\ cachedNodeMap.by = b.by /\ normOrigin.by \in {0, b.by}

\* the vector file of a sequence is a geographic dataset
LoadsGeographic(q) ==
    q.files.vector # "none" /\ IsGeographic(Classify(OsmOf(q.files.vector).nodes))

\* C4: when a sequence that also loads a vector map takes the alignment decision
\* of its point cloud, it has already classified its nodes and, for a geographic
\* map, resolved its normalization origin; the origin it reads is its own.
C4_AlignmentAfterOwnOrigin ==
    [][\A t \in Tokens :
           (seqs[t].pc = "pcd" /\ seqs'[t].pc # "pcd" /\ t = loadToken
               /\ seqs[t].files.vector # "none")
           => /\ cachedNodeMap.by = t
              /\ normOrigin.by \in {0, t}
              /\ LoadsGeographic(seqs[t]) => normOrigin.set /\ normOrigin.by = t
      ]_vars

\* C5: after a reload that completes un-superseded with a geographic vector map
\* and a point cloud whose centroid magnitude exceeds the threshold, the cloud
\* frame is at (-E0, -U0, +N0 with vectorFlipY, else -N0) for that reload's origin.
C5_CloudFrameAtOwnOrigin ==
    \A t \in Tokens :
        (/\ seqs[t].pc = "done" /\ seqs[t].kind = "reload" /\ t = loadToken
         /\ \E b \in vectorGroup : b.by = t /\ b.usingProj4
         /\ \E c \in cloudGroup : c.by = t /\ CloudMagnitude(c.file) > AlignThreshold
         /\ normOrigin.set /\ normOrigin.by = t)
        => cloudFramePos = <<0 - normOrigin.E0, 0 - normOrigin.U0,
                             IF vectorFlipY THEN normOrigin.N0 ELSE 0 - normOrigin.N0>>

\* the origin a geographic load must use: the mapOrigin prop, else the origin
\* parsed from this load's map config file, else the centroid of the projected nodes
OriginByPriority(q) ==
    LET cfg == LaneletResult(OsmOf(q.files.vector), q.yamlInfo, NoOrigin, NoOrigin,
                             NoOrigin).projForThisMap
        c == Classify(OsmOf(q.files.vector).nodes)
        given == IF mapOrigin.present THEN mapOrigin ELSE OriginOverrideOf(q)
        p == applyProjection(<<given.lon, given.lat, given.ele>>, cfg)
        s == SumProjected(c.nodeMap, c.order, cfg)
    IN IF given.present THEN <<p[1], p[2], p[3]>>
       ELSE <<s[1] \div s[4], s[2] \div s[4], s[3] \div s[4]>>

\* the centroid of the projected nodes of the sequence's vector file
CentroidOrigin(q) ==
    LET cfg == LaneletResult(OsmOf(q.files.vector), q.yamlInfo, NoOrigin, NoOrigin,
                             NoOrigin).projForThisMap
        c == Classify(OsmOf(q.files.vector).nodes)
        s == SumProjected(c.nodeMap, c.order, cfg)
    IN <<s[1] \div s[4], s[2] \div s[4], s[3] \div s[4]>>

\* sequence t, still the newest, has come out of loadLanelet with a geographic map
\* and the stored normalization origin is the one it resolved
ResolvedOwnOrigin(t) ==
    /\ seqs[t].pc = "fit" /\ t = loadToken
    /\ LoadsGeographic(seqs[t]) /\ normOrigin.set /\ normOrigin.by = t

\* C6: the normalization origin of a reload of a geographic map is the mapOrigin
\* prop when present, otherwise the origin parsed from this reload's map config
\* file, and the centroid of the projected nodes exactly when neither is available.
C6_OriginByPriority ==
    \A t \in Tokens :
        (ResolvedOwnOrigin(t) /\ seqs[t].kind = "reload")
        => <<normOrigin.E0, normOrigin.N0, normOrigin.U0>> = OriginByPriority(seqs[t])

\* a map config file gives no usable origin: no file, YAML that does not parse, no
\* map_origin entry, or a latitude or longitude that is not a number
NoUsableOrigin(file) ==
    \/ file.kind \in {"none", "throws"}
    \/ /\ file.kind = "doc"
       /\ \A o \in {file.rosWildMapOrigin, file.rosMapOrigin, file.mapOrigin,
                    file.rosWildMapOriginCamel} :
              ~o.given \/ o.latitude.k # "num" \/ o.longitude.k # "num"

\* C7: a reload whose origin metadata is missing or malformed, with no mapOrigin
\* prop, normalizes by the centroid of the projected nodes, whatever earlier
\* reloads of the session were given.
C7_CentroidWhenOriginUnusable ==
    \A t \in Tokens :
        (/\ ResolvedOwnOrigin(t) /\ seqs[t].kind = "reload"
         /\ ~mapOrigin.present
         /\ NoUsableOrigin(ConfigFileOf(seqs[t].files.mapConfig)))
        => <<normOrigin.E0, normOrigin.N0, normOrigin.U0>> = CentroidOrigin(seqs[t])

\* every node of the document carries numeric local_x and local_y tags
AllLocal(osm) ==
    \A i \in 1..Len(osm.nodes) :
        osm.nodes[i].local_x.k = "num" /\ osm.nodes[i].local_y.k = "num"

\* the node of a document with the given id
NodeOf(osm, id) == osm.nodes[CHOOSE i \in 1..Len(osm.nodes) : osm.nodes[i].id = id]

\* the lines of a document drawn at the unshifted local coordinates of its nodes
LocalLines(osm, flipY) ==
    [i \in 1..Len(osm.ways) |->
        [j \in 1..Len(osm.ways[i].nd) |->
            LET n == NodeOf(osm, osm.ways[i].nd[j])
            IN <<n.local_x.v, NumberOrZero(n.ele),
                 IF flipY THEN 0 - n.local_y.v ELSE n.local_y.v>>]]

\* C8: when the load of a vector map whose nodes all carry local_x / local_y is
\* complete and not superseded, the map is classified local, no projection is selected, the
\* normalization origin is absent and the lines are at the unshifted local values.
C8_LocalMapStaysUnshifted ==
    \A t \in Tokens :
        (/\ seqs[t].pc = "fit" /\ t = loadToken /\ seqs[t].files.vector # "none"
         /\ AllLocal(OsmOf(seqs[t].files.vector)))
        => /\ ~normOrigin.set
           /\ \A b \in vectorGroup :
                  b.by = t => /\ b.hasLocal /\ ~b.usingProj4
                              /\ LinesOf(b, vectorFlipY)
                                     = LocalLines(OsmOf(b.file), vectorFlipY)

(***************************************************************************)
(* The synchronous part of loadLanelet on its own: classification, origin  *)
(* resolution and the lines, on every document below.                      *)
(***************************************************************************)
\* longest node list of a sample document
MaxNodes == 3

\* the nodes the sample documents are built from: three geographic nodes in
\* three longitude zones, a second node with the id 1, and a local node
SampleNodes ==
    {OsmNode(1, Absent, Absent, Num(6), <<>>, Num(36), Num(138)),
     OsmNode(2, Absent, Absent, Absent, <<>>, Num(30), Num(144)),
     OsmNode(3, Absent, Absent, Num(12), <<>>, Num(42), Num(132)),
     OsmNode(1, Absent, Absent, Num(0), <<>>, Num(48), Num(126)),
     OsmNode(4, Num(60), Num(0), Absent, <<>>, Absent, Absent)}

NodeLists == UNION {[1..n -> SampleNodes] : n \in 1..MaxNodes}

\* an origin parsed from a map_config.yaml
ConfigOrigin == [present |-> TRUE, lat |-> 36, lon |-> 140, ele |-> 0,
                 roll |-> 0, pitch |-> 0, yaw |-> 0]

\* the one way of a sample document: it references every id, present or not
SampleWay == OsmWay(<<1, 2, 3, 4>>)

InitLanelet ==
    /\ InitMain
    /\ showDirections = FALSE
    /\ fnArg \in {[fn |-> "lanelet", nodes |-> ns, grid |-> g, prop |-> p,
                   override |-> o, temp |-> t] :
                     ns \in NodeLists, g \in {<<>>, <<"5", "4", "S">>},
                     p \in {NoOrigin, PropOrigin}, o \in {NoOrigin, ConfigOrigin},
                     t \in {NoOrigin, ConfigOrigin}}
    /\ fnRes = NoCall

\* loadLanelet from the parsed document to the lines it adds
ApplyLoadLanelet ==
    /\ fnArg # NoCall /\ fnRes = NoCall
    /\ \E r \in {LaneletResult([nodes |-> fnArg.nodes, ways |-> <<SampleWay>>],
                               [projector |-> "MGRS", mgrsGrid |-> fnArg.grid],
                               fnArg.override, fnArg.temp, fnArg.prop)} :
          fnRes' = <<[r |-> r,
                      lines |-> LinesFrom(<<SampleWay>>, 1, Classify(fnArg.nodes).nodeMap,
                                          r.hasLocal, r.usingProj4, r.projForThisMap,
                                          [E0 |-> r.E0, N0 |-> r.N0, U0 |-> r.U0,
                                           flipY |-> vectorFlipY])]>>
    /\ UNCHANGED <<mainVars, fnArg>>

SpecLanelet == InitLanelet /\ [][ApplyLoadLanelet]_vars

\* the ids of a node list, and the node that Map.set leaves stored under an id
IdsOf(nodes) == {nodes[i].id : i \in 1..Len(nodes)}

StoredNode(nodes, id) ==
    nodes[CHOOSE i \in 1..Len(nodes) :
              nodes[i].id = id /\ \A j \in (i + 1)..Len(nodes) : nodes[j].id # id]

\* the projected (E, N, Z) of a geographic node under the identifier to
ProjectedTriple(n, to) ==
    LET p == Proj4(to, n.lon.v, n.lat.v)
    IN <<p[1], p[2], NumberOrZero(n.ele)>>

RECURSIVE SumOfTriples(_, _, _)
\* the componentwise sum of the projected triples of the nodes stored under ids
SumOfTriples(nodes, ids, to) ==
    IF ids = {} THEN <<0, 0, 0>>
    ELSE LET id == CHOOSE k \in ids : TRUE
             t == ProjectedTriple(StoredNode(nodes, id), to)
             rest == SumOfTriples(nodes, ids \ {id}, to)
         IN <<t[1] + rest[1], t[2] + rest[2], t[3] + rest[3]>>

\* a node list in another order
Reordered(nodes, perm) == [i \in 1..Len(nodes) |-> nodes[perm[i]]]

\* no origin is given to the call: no mapOrigin prop, no originOverride argument
\* and no tempMapOrigin state
NoOriginGiven ==
    ~fnArg.prop.present /\ ~fnArg.override.present /\ ~fnArg.temp.present

\* the origin of a result
OriginOf(r) == <<r.E0, r.N0, r.U0>>

\* C11 (as written): with no origin given, the origin of a geographic document is
\* the arithmetic mean of the projected triples of the nodes in the node map, and
\* every ordering of the input nodes gives the same origin.
C11_CentroidIsOrderFreeMean ==
    (fnRes # NoCall /\ fnRes[1].r.usingProj4 /\ NoOriginGiven)
    => LET r == fnRes[1].r
           ids == IdsOf(fnArg.nodes)
           n == Cardinality(ids)
           sum == SumOfTriples(fnArg.nodes, ids, r.utmEpsg)
       IN /\ r.originSource = "centroid-fallback"
          /\ n * r.E0 = sum[1] /\ n * r.N0 = sum[2] /\ n * r.U0 = sum[3]
          /\ n = Len(fnArg.nodes) =>
                \A perm \in Permutations(1..Len(fnArg.nodes)) :
                    OriginOf(LaneletResult(
                        [nodes |-> Reordered(fnArg.nodes, perm), ways |-> <<SampleWay>>],
                        [projector |-> "MGRS", mgrsGrid |-> fnArg.grid],
                        fnArg.override, fnArg.temp, fnArg.prop)) = OriginOf(r)

\* the identifier the call derives when its nodes are given in another order
EpsgOfReordered(perm) ==
    LaneletResult([nodes |-> Reordered(fnArg.nodes, perm), ways |-> <<SampleWay>>],
                  [projector |-> "MGRS", mgrsGrid |-> fnArg.grid],
                  fnArg.override, fnArg.temp, fnArg.prop).utmEpsg

\* C11 (amended): with no origin given, the origin of a geographic document is the
\* arithmetic mean of the triples of the nodes in the node map, projected with the
\* identifier derived from the first geographic node; it is the same for every
\* ordering of the input nodes that derives the same identifier.
C11_CentroidIsMeanUnderProjection ==
    (fnRes # NoCall /\ fnRes[1].r.usingProj4 /\ NoOriginGiven)
    => LET r == fnRes[1].r
           ids == IdsOf(fnArg.nodes)
           n == Cardinality(ids)
           sum == SumOfTriples(fnArg.nodes, ids, r.utmEpsg)
       IN /\ r.originSource = "centroid-fallback"
          /\ n * r.E0 = sum[1] /\ n * r.N0 = sum[2] /\ n * r.U0 = sum[3]
          /\ n = Len(fnArg.nodes) =>
                \A perm \in Permutations(1..Len(fnArg.nodes)) :
                    EpsgOfReordered(perm) = r.utmEpsg =>
                        OriginOf(LaneletResult(
                            [nodes |-> Reordered(fnArg.nodes, perm),
                             ways |-> <<SampleWay>>],
                            [projector |-> "MGRS", mgrsGrid |-> fnArg.grid],
                            fnArg.override, fnArg.temp, fnArg.prop)) = OriginOf(r)

\* C11 witness: three geographic nodes with a grid code, no origin given: the
\* centroid of the three projected triples is the origin
C11_CentroidOfThree ==
    /\ fnRes # NoCall /\ NoOriginGiven
    /\ Cardinality(IdsOf(fnArg.nodes)) = 3
    /\ fnArg.nodes[1].id = 3 /\ fnArg.grid # <<>>
    /\ fnRes[1].r.usingProj4
    /\ fnRes[1].r.originSource = "centroid-fallback"
    /\ OriginOf(fnRes[1].r) = <<-27, 358, 6>>

\* the ids the way references that the node map resolves, in the way's order
ResolvedRefs(nodes) == SelectSeq(SampleWay.nd, LAMBDA id : id \in IdsOf(nodes))

\* a render point (X, Zup, Ysigned) taken back to planar (E', N', U')
ReverseRemap(pt, flipY) == <<pt[1], IF flipY THEN 0 - pt[3] ELSE pt[3], pt[2]>>

\* C12: for every geographic node that is drawn and both values of vectorFlipY,
\* reversing the axis remap of its render point and re-adding the resolved origin
\* gives the node's projected (E, N, Z).
C12_RenderRoundTrip ==
    (fnRes # NoCall /\ fnRes[1].r.usingProj4)
    => LET r == fnRes[1].r
           refs == ResolvedRefs(fnArg.nodes)
       IN IF Len(refs) > 1
          THEN /\ Len(fnRes[1].lines) = 1
               /\ Len(fnRes[1].lines[1]) = Len(refs)
               /\ \A k \in 1..Len(refs) :
                      LET back == ReverseRemap(fnRes[1].lines[1][k], vectorFlipY)
                      IN <<back[1] + r.E0, back[2] + r.N0, back[3] + r.U0>>
                            = ProjectedTriple(StoredNode(fnArg.nodes, refs[k]), r.utmEpsg)
          ELSE fnRes[1].lines = <<>>

\* C12 witness: a flipped line of three geographic nodes normalized by the
\* centroid: node 1 (E -27, N 358, Z 6) is drawn at (0, 0, 0), node 2 at (60, -6, 60)
C12_FlippedLineOfThree ==
    /\ fnRes # NoCall /\ vectorFlipY /\ NoOriginGiven
    /\ fnRes[1].r.usingProj4 /\ fnArg.grid # <<>>
    /\ Len(fnRes[1].lines) = 1
    /\ fnRes[1].lines[1] = <<<<0, 0, 0>>, <<60, -6, 60>>, <<-60, 6, -60>>>>

(***************************************************************************)
(* createDirectionArrows on its own: one way of a local document, from its *)
(* first node (0, 0, 0) to its last node (d, 0, z), with or without a node *)
(* in between.                                                             *)
(***************************************************************************)
\* the largest x of the last node of the sample way
MaxChord == 30

\* where the last node lies: x in 20..MaxChord, elevation 0 or 7
ChordEnds == {<<d, z>> : d \in 20..MaxChord, z \in {0, 7}}

\* the node in between: none, one on the chord, one behind the first node
MidPoints == {<<>>, <<10, 0>>, <<-5, 0>>}

\* the document of a sample: the way references node 3 whether it exists or not
ArrowSample(end, mid) ==
    [nodes |-> <<OsmNode(1, Num(0), Num(0), Absent, <<>>, Absent, Absent),
                 OsmNode(2, Num(end[1]), Num(0), Num(end[2]), <<>>, Absent, Absent)>>
               \o (IF mid = <<>> THEN <<>>
                   ELSE <<OsmNode(3, Num(mid[1]), Num(mid[2]), Absent, <<>>,
                                  Absent, Absent)>>),
     ways |-> <<OsmWay(<<1, 3, 2>>)>>]

InitArrows ==
    /\ InitMain
    /\ showDirections = TRUE
    /\ fnArg \in {[fn |-> "arrows", end |-> e, mid |-> m] :
                     e \in ChordEnds, m \in MidPoints}
    /\ fnRes = NoCall

\* createDirectionArrows(ways, nodeMap, false, projForThisMap) on the sample
ApplyCreateDirectionArrows ==
    /\ fnArg # NoCall /\ fnRes = NoCall
    /\ LET osm == ArrowSample(fnArg.end, fnArg.mid)
       IN fnRes' = <<ArrowLoop([ways |-> osm.ways,
                                nodeMap |-> Classify(osm.nodes).nodeMap,
                                usingProj4 |-> FALSE, cfg |-> IdentityProj,
                                norm |-> NoNorm, flipY |-> vectorFlipY],
                               1, 0, <<>>)>>
    /\ UNCHANGED <<mainVars, fnArg>>

SpecArrows == InitArrows /\ [][ApplyCreateDirectionArrows]_vars

\* the square of the first-to-last distance of the sample way
ChordSquared == fnArg.end[1] * fnArg.end[1] + fnArg.end[2] * fnArg.end[2]

\* the length of the sample way along its nodes, when it has no elevation
FlatArcLength ==
    IF fnArg.mid = <<>> THEN fnArg.end[1]
    ELSE IF fnArg.mid[1] >= 0 THEN fnArg.mid[1] + (fnArg.end[1] - fnArg.mid[1])
    ELSE (0 - fnArg.mid[1]) + (fnArg.end[1] - fnArg.mid[1])

\* C13: a way gets an arrow exactly when its first-to-last distance is at least
\* the minimum length 25 (a distance of exactly 25 admits, anything below
\* rejects), and a way admitted by the chord check is not rejected by the
\* arc-length check at an arc length of 25 or more.
C13_ThresholdAdmits ==
    fnRes # NoCall =>
        /\ fnRes[1].added = <<1>> <=> ChordSquared >= MinPathLength * MinPathLength
        /\ fnRes[1].added = <<>> <=> ChordSquared < MinPathLength * MinPathLength
        /\ (fnArg.end[2] = 0 /\ FlatArcLength >= MinPathLength
                /\ ChordSquared >= MinPathLength * MinPathLength)
               => fnRes[1].arrowCount = 1

\* C13 witness: the way from (0, 0, 0) to (24, 0, 7), of length exactly 25, has
\* got its arrow
C13_ExactlyAtThreshold ==
    /\ fnRes # NoCall
    /\ fnArg.end = <<24, 7>> /\ fnArg.mid = <<>>
    /\ fnRes[1].added = <<1>>

(***************************************************************************)
(* Properties of the arrow runs and of the layers under reloads.           *)
(***************************************************************************)
RECURSIVE IndicatorsOf(_)
\* the indicators of directionGroupRef one by one, in the order they were added:
\* each with the ways it was computed from, the origin it was shifted by and the
\* index of its way
IndicatorsOf(group) ==
    IF group = <<>> THEN <<>>
    ELSE LET b == group[Len(group)]
         IN IndicatorsOf(SubSeq(group, 1, Len(group) - 1))
            \o [k \in 1..Len(b.idx) |-> [ways |-> b.ways, file |-> b.file,
                                         norm |-> b.norm, idx |-> b.idx[k]]]

RECURSIVE AdmittedWays(_, _, _)
\* the ways that get an arrow when the loop runs from way i to its end without
\* suspending
AdmittedWays(ctx, i, arrowCount) ==
    IF i > Len(ctx.ways) \/ ~ctx.ways[i].hasNd \/ arrowCount >= MaxArrows THEN <<>>
    ELSE IF ArrowAdmitted(ArrowPointsFrom(ctx.ways[i].nd, 1, ctx))
    THEN <<i>> \o AdmittedWays(ctx, i + 1, arrowCount + 1)
    ELSE AdmittedWays(ctx, i + 1, arrowCount)

\* the indicators a run would have placed had it run from its start to its end
\* without suspending
UninterruptedIndicators(run) ==
    LET idx == AdmittedWays(ArrowContext(run, run.normAtStart, vectorFlipY), 1, 0)
    IN [k \in 1..Len(idx) |->
           [ways |-> run.ways.by, file |-> run.ways.file,
            norm |-> IF run.params.usingProj4 THEN run.normAtStart ELSE NoNorm,
            idx |-> idx[k]]]

FitGuardRadius == 50000000
\* const { padding = 1.25, minRadius = 5 } = opts
MinRadius == 5

\* the bounding-sphere radii of the sample scenes
SampleRadii == {0, 4, 6, 200, FitGuardRadius - 2, FitGuardRadius, FitGuardRadius + 2,
                2 * FitGuardRadius}

\* the camera after construction: position (60, 60, 60), near 0.1, far 1e8,
\* controls target (0, 0, 0)
InitialCamera ==
    [target |-> <<0, 0, 0>>,
     position |-> [center |-> <<60, 60, 60>>, direction |-> "none", distance2 |-> 0],
     near100 |-> 10, far50 |-> 2000000]

\* a camera that an earlier fit has placed
FittedCamera ==
    [target |-> <<7, 0, 7>>,
     position |-> [center |-> <<7, 0, 7>>, direction |-> "diagonal", distance2 |-> 100],
     near100 |-> 20, far50 |-> 20]

\* cameraRef.current.getWorldDirection(), as the model distinguishes it: a
\* direction of length 1, or one shorter than 0.1
WorldDirections == {"forward", "degenerate"}

\* the guard with the threshold itself refused
RadiusGuardInclusive(radius) == radius >= FitGuardRadius
\* if (sphere.radius > 5e7)
RadiusGuard(radius) == radius > FitGuardRadius

Max(a, b) == IF a >= b THEN a ELSE b

\* fitSceneToContents({ padding: 1.25 }): the camera afterwards and the message
\* written to the console.  scene: whether camera, controls and scene exist,
\* whether a layer holds drawable geometry, and the center and the radius of the
\* bounding sphere.
fitSceneToContents(camera, scene) ==
    IF ~scene.available
    THEN [camera |-> camera, log |-> "not available for fitting"]
    ELSE IF ~scene.hasGeometry
    THEN [camera |-> camera, log |-> "No drawable geometry found"]
    ELSE IF RadiusGuard(scene.radius)
    THEN [camera |-> camera, log |-> "Refusing to auto-fit"]
    ELSE LET effectiveRadius == Max(scene.radius, MinRadius)
         IN [camera |->
                [target |-> scene.center,
                 position |-> [center |-> scene.center,
                               direction |-> IF scene.direction = "degenerate"
                                             THEN "diagonal" ELSE scene.direction,
                               distance2 |-> 5 * effectiveRadius],
                 near100 |-> Max(10, effectiveRadius),
                 far50 |-> Max(20, effectiveRadius)],
             log |-> "Camera fitted to scene"]

InitFit ==
    /\ InitMain
    /\ showDirections = FALSE /\ vectorFlipY = TRUE
    /\ fnArg \in {[fn |-> "fit", camera |-> c,
                   scene |-> [available |-> a, hasGeometry |-> g, center |-> ctr,
                              radius |-> rad, direction |-> d]] :
                     c \in {InitialCamera, FittedCamera}, a \in BOOLEAN, g \in BOOLEAN,
                     ctr \in {<<0, 0, 0>>, <<100, 0, -50>>}, rad \in SampleRadii,
                     d \in WorldDirections}
    /\ fnRes = NoCall

ApplyFitSceneToContents ==
    /\ fnArg # NoCall /\ fnRes = NoCall
    /\ fnRes' = <<fitSceneToContents(fnArg.camera, fnArg.scene)>>
    /\ UNCHANGED <<mainVars, fnArg>>

SpecFit == InitFit /\ [][ApplyFitSceneToContents]_vars

\* C15: with geometry whose bounding-sphere radius exceeds 5e7, fitSceneToContents
\* reports the refusal and leaves the camera position, the controls target and
\* the clip planes as they were; with a radius of 5e7 or less it fits the camera:
\* the target is the center of the sphere and the camera lies at the fitted
\* distance from it.
C15_OversizedBoundsNotFitted ==
    (fnRes # NoCall /\ fnArg.scene.available /\ fnArg.scene.hasGeometry)
    => IF fnArg.scene.radius > 50000000
       THEN /\ fnRes[1].log = "Refusing to auto-fit"
            /\ fnRes[1].camera = fnArg.camera
       ELSE /\ fnRes[1].log = "Camera fitted to scene"
            /\ fnRes[1].camera.target = fnArg.scene.center
            /\ fnRes[1].camera.position.center = fnArg.scene.center
            /\ fnRes[1].camera.position.distance2
                  = 5 * (IF fnArg.scene.radius > 5 THEN fnArg.scene.radius ELSE 5)

\* C15 witness: a scene two units over the threshold has been refused and the
\* camera of the earlier fit is still in place
C15_RefusedAboveThreshold ==
    /\ fnRes # NoCall
    /\ fnArg.scene.available /\ fnArg.scene.hasGeometry
    /\ fnArg.scene.radius = 50000002
    /\ fnArg.camera = FittedCamera
    /\ fnRes[1] = [camera |-> FittedCamera, log |-> "Refusing to auto-fit"]

\* the status a failed load is reported with
FailureStatus == "Error reloading map"

\* C16: when the point cloud or the vector map of a load sequence cannot be
\* fetched or parsed, the sequence ends there, a status reporting the failure is
\* set, and what was displayed before the sequence started is still displayed:
\* the earlier cloud and the earlier lines, and no geometry of the failed sequence.
C16_FailedLoadLeavesPriorState ==
    [][\A t \in Tokens :
           (seqs[t].pc \in {"pcd", "osm"} /\ seqs'[t].pc = "failed")
           => /\ status' = FailureStatus
              /\ seqs[t].priorCloud => \E c \in cloudGroup' : c.by < t
              /\ seqs[t].priorLines => \E b \in vectorGroup' : b.by < t
              /\ \A c \in cloudGroup' : c.by # t
              /\ \A b \in vectorGroup' : b.by # t
      ]_vars

\* C17: a layer loses geometry only in the step in which a load of that very
\* layer begins (loadPointCloud for the cloud layer, loadLanelet for the vector
\* layer); in particular the start of a reload without point cloud file leaves
\* the cloud displayed, and the start of one without vector file leaves the lines.
C17_OnlyReplacedLayerCleared ==
    [][/\ (cloudGroup # {} /\ ~(cloudGroup \subseteq cloudGroup'))
              => \E t \in Tokens : seqs[t].pc # "pcd" /\ seqs'[t].pc = "pcd"
       /\ (vectorGroup # {} /\ ~(vectorGroup \subseteq vectorGroup'))
              => \E t \in Tokens : seqs[t].pc # "osm" /\ seqs'[t].pc = "osm"
      ]_vars

(***************************************************************************)
(* The initial load of a viewer created with showLineDirections = true:    *)
(* the URL-change effect at mount and its continuations, with a user who   *)
(* may tick "Line Directions" when it is unticked.  The event loop runs    *)
(* every continuation and every pending effect sooner or later (weak       *)
(* fairness); the user is under no obligation, and no fetch fails.         *)
(***************************************************************************)
InitInitialLoad == InitMain /\ showDirections = TRUE /\ fnArg = NoCall /\ fnRes = NoCall

\* the [pointcloudUrl, vectorUrl, ...] effect at mount
MountEffect == loadToken = 0 /\ UrlChange

\* the continuations that resume after a fetch
FetchSteps ==
    \/ MountEffect
    \/ \E t \in Tokens : UrlAfterProjectorYaml(t)
    \/ \E t \in Tokens : AfterPointCloud(t)
    \/ \E t \in Tokens : AfterFitDelay(t)

\* the steps that build the vector map and its arrows
BuildSteps ==
    \/ \E t \in Tokens : AfterLanelet(t)
    \/ DirectionsEffect
    \/ \E r \in Runs : ArrowResume(r)

\* ENABLED <<BuildSteps>>_vars, from the guards of the three actions
BuildStepsEnabled ==
    \/ \E t \in Tokens : seqs[t].pc = "osm"
    \/ /\ dirEffectPending
       /\ (showDirections /\ directionGroup = <<>> /\ cachedWays.by # 0)
              => \E r \in Runs : arrowRuns[r].pc = "idle"
    \/ \E r \in Runs : arrowRuns[r].pc = "yield"

\* the user ticks the unticked checkbox
TurnDirectionsOn == ~showDirections /\ ToggleShowDirections

NextInitialLoad == FetchSteps \/ BuildSteps \/ TurnDirectionsOn

\* WF_vars(FetchSteps) and WF_vars(BuildSteps), the latter written out with
\* the enabling condition above
SpecInitialLoad ==
    /\ InitInitialLoad
    /\ [][NextInitialLoad]_vars
    /\ WF_vars(FetchSteps)
    /\ (<>[]BuildStepsEnabled => []<><<BuildSteps>>_vars)

\* C18: a viewer created with showLineDirections = true eventually has its
\* initial load done with the arrows of the vector map placed and the arrow
\* display still enabled.
C18_InitialLoadPlacesArrows ==
    <>(/\ seqs[1].pc = "done"
       /\ showDirections
       /\ directionGroup # <<>>
       /\ \A r \in Runs : arrowRuns[r].pc = "idle")

\* C19: ticking or unticking "Line Directions", and the effects that run on the
\* change, add no geometry and leave the load token, the caches, the
\* normalization origin and the cloud frame as they are; and when a load is done
\* un-superseded the arrow layer holds no indicator of another load's ways.
C19_DisplayFlagOnlyTogglesVisibility ==
    [][/\ (showDirections' # showDirections /\ seqs' = seqs)
              => UNCHANGED <<directionGroup, cloudGroup, vectorGroup, loadToken,
                             cachedWays, cachedNodeMap, normOrigin, cloudFramePos>>
       /\ (dirEffectPending /\ ~dirEffectPending')
              => UNCHANGED <<directionGroup, arrowRuns, cloudGroup, vectorGroup,
                             loadToken, cachedWays, cachedNodeMap, normOrigin,
                             cloudFramePos, status>>
       /\ \A t \in Tokens :
              (seqs'[t].pc = "done" /\ t = loadToken')
                  => \A k \in 1..Len(directionGroup') : directionGroup'[k].ways = t
      ]_vars

(***************************************************************************)
(* The alignment block of loadPointCloud on its own.                       *)
(***************************************************************************)
\* stats.cloudCentroid.length() of the sample clouds
SampleMagnitudes == {0, 50, AlignThreshold - 1, AlignThreshold, AlignThreshold + 1,
                     20000, 600000}

\* normOriginRef.current of the samples: null, and origins some load has stored
SampleNorms ==
    {NoNorm,
     [set |-> TRUE, E0 |-> 0, N0 |-> 0, U0 |-> 0, by |-> 1],
     [set |-> TRUE, E0 |-> 3, N0 |-> 348, U0 |-> 0, by |-> 1],
     [set |-> TRUE, E0 |-> -27, N0 |-> 358, U0 |-> 6, by |-> 1],
     [set |-> TRUE, E0 |-> 399000, N0 |-> 3900000, U0 |-> 40, by |-> 1]}

InitAlign ==
    /\ InitMain
    /\ showDirections = FALSE
    /\ fnArg \in {[fn |-> "align", magnitude |-> m, norm |-> n] :
                     m \in SampleMagnitudes, n \in SampleNorms}
    /\ fnRes = NoCall

\* the alignment of a cloud frame that the start of the sequence has reset
ApplyAlignment ==
    /\ fnArg # NoCall /\ fnRes = NoCall
    /\ fnRes' = <<AlignedCloudFrame(fnArg.magnitude, fnArg.norm, vectorFlipY, Zero3)>>
    /\ UNCHANGED <<mainVars, fnArg>>

SpecAlign == InitAlign /\ [][ApplyAlignment]_vars

\* C20: the alignment translates the cloud frame by the negative of the stored
\* origin in render axes, (-E0, -U0, +N0 with vectorFlipY, else -N0), exactly when
\* the centroid magnitude is strictly greater than 10000 and an origin is stored;
\* otherwise the translation stays zero.
C20_AlignsOnlyLargeCloudsWithOrigin ==
    fnRes # NoCall =>
        LET o == RenderPoint(fnArg.norm.E0, fnArg.norm.N0, fnArg.norm.U0, vectorFlipY)
        IN IF fnArg.magnitude > 10000 /\ fnArg.norm.set
           THEN fnRes[1] = <<0 - o[1], 0 - o[2], 0 - o[3]>>
           ELSE fnRes[1] = <<0, 0, 0>>

\* C20 witness: a cloud of magnitude 10001 has been translated to the negative of
\* the stored origin, with the flip
C20_JustAboveThreshold ==
    /\ fnRes # NoCall /\ vectorFlipY
    /\ fnArg.magnitude = 10001 /\ fnArg.norm.set /\ fnArg.norm.E0 = -27
    /\ fnRes[1] = <<27, -6, 358>>

(***************************************************************************)
(* The node loop and the ways loop of loadLanelet on documents whose       *)
(* coordinate values need not be numbers.                                  *)
(***************************************************************************)
\* longest node list of these documents
MaxShapes == 2

\* a tag or attribute value that parseFloat turns into NaN, such as "abc"
Garbage == [k |-> "text", v |-> 0]

\* the coordinates a node can carry: local_x, local_y, lat, lon
NodeShapes ==
    {<<Num(60), Num(5), Absent, Absent>>,
     <<Garbage, Num(5), Absent, Absent>>,
     <<Garbage, Garbage, Num(36), Num(138)>>,
     <<Num(60), Absent, Num(36), Num(138)>>,
     <<Absent, Absent, Num(36), Num(138)>>,
     <<Absent, Absent, Garbage, Num(138)>>,
     <<Absent, Absent, Garbage, Garbage>>,
     <<Absent, Absent, Absent, Absent>>}

\* the node with id i and the coordinates of a shape
ShapedNode(i, sh) == OsmNode(i, sh[1], sh[2], Absent, <<>>, sh[3], sh[4])

ShapedLists ==
    UNION {{[i \in 1..n |-> ShapedNode(i, f[i])] : f \in [1..n -> NodeShapes]} :
              n \in 1..MaxShapes}

\* a projection config as loadLanelet builds it for a geographic map
SampleUtmProj == [mode |-> "proj4", from |-> <<"EPSG:4326">>, to |-> <<"EPSG:326", "5", "4">>]

InitClassify ==
    /\ InitMain
    /\ showDirections = FALSE
    /\ fnArg \in {[fn |-> "classify", nodes |-> ns] : ns \in ShapedLists}
    /\ fnRes = NoCall

\* the node loop, and the vertices of one way that references every node once
ApplyClassify ==
    /\ fnArg # NoCall /\ fnRes = NoCall
    /\ \E c \in {Classify(fnArg.nodes)} :
          fnRes' = <<[c |-> c,
                      pts |-> WayPointsFrom([i \in 1..Len(fnArg.nodes) |-> i], 1, c.nodeMap,
                                            c.hasLocal, IsGeographic(c), SampleUtmProj,
                                            [E0 |-> 0, N0 |-> 0, U0 |-> 0,
                                             flipY |-> vectorFlipY])]>>
    /\ UNCHANGED <<mainVars, fnArg>>

SpecClassify == InitClassify /\ [][ApplyClassify]_vars

\* present and numeric
Numeric(raw) == raw.k = "num"

NumericLocal(n) == Numeric(n.local_x) /\ Numeric(n.local_y)

NumericGeographic(n) == ~NumericLocal(n) /\ Numeric(n.lat) /\ Numeric(n.lon)

\* C21: a node is stored as Local only with numeric local_x and local_y, else as
\* Geographic only with numeric lat and lon; any other node is not in the node
\* map, raises neither hasLocal nor hasLatLon, and gives no vertex to a way.
C21_OnlyNumericNodesRetained ==
    fnRes # NoCall =>
        LET ns == fnArg.nodes
            c == fnRes[1].c
            kept == {i \in 1..Len(ns) : NumericLocal(ns[i]) \/ NumericGeographic(ns[i])}
        IN /\ \A i \in DOMAIN c.nodeMap :
                 /\ i \in kept
                 /\ c.nodeMap[i].kind = "local" => NumericLocal(ns[i])
                 /\ c.nodeMap[i].kind = "geo" => NumericGeographic(ns[i])
           /\ c.hasLocal => \E i \in 1..Len(ns) : NumericLocal(ns[i])
           /\ c.hasLatLon => \E i \in 1..Len(ns) : NumericGeographic(ns[i])
           /\ Len(fnRes[1].pts) <= Cardinality(kept)

(***************************************************************************)
(* The ways loops of loadLanelet and of createDirectionArrows on documents *)
(* with ways that cannot be drawn.                                         *)
(***************************************************************************)
\* longest list of ways of these documents
MaxWays == 3

\* two local nodes 30 apart
TwoNodes ==
    <<OsmNode(1, Num(0), Num(0), Absent, <<>>, Absent, Absent),
      OsmNode(2, Num(30), Num(0), Absent, <<>>, Absent, Absent)>>

\* a way without nd, a way of missing nodes, two ways with one resolvable node,
\* and a way along the two nodes
WayShapes == {OsmWay(<<>>), OsmWay(<<8, 9>>), OsmWay(<<1>>), OsmWay(<<1, 9>>),
              OsmWay(<<1, 2>>)}

WayLists == UNION {[1..n -> WayShapes] : n \in 1..MaxWays}

InitWays ==
    /\ InitMain
    /\ showDirections = TRUE
    /\ fnArg \in {[fn |-> "ways", ways |-> ws] : ws \in WayLists}
    /\ fnRes = NoCall

\* the ways loop of loadLanelet, then createDirectionArrows on the cached ways
\* (fewer than YieldEvery arrows: the run never yields)
ApplyWaysLoops ==
    /\ fnArg # NoCall /\ fnRes = NoCall
    /\ \E c \in {Classify(TwoNodes)} :
          fnRes' = <<[lines |-> LinesFrom(fnArg.ways, 1, c.nodeMap, c.hasLocal, FALSE,
                                          IdentityProj,
                                          [E0 |-> 0, N0 |-> 0, U0 |-> 0,
                                           flipY |-> vectorFlipY]),
                      arrows |-> ArrowLoop([ways |-> fnArg.ways, nodeMap |-> c.nodeMap,
                                            usingProj4 |-> FALSE, cfg |-> IdentityProj,
                                            norm |-> NoNorm, flipY |-> vectorFlipY],
                                           1, 0, <<>>)]>>
    /\ UNCHANGED <<mainVars, fnArg>>

SpecWays == InitWays /\ [][ApplyWaysLoops]_vars

\* the ways with at least 2 nodes that the node map resolves
Drawable(ways) ==
    {i \in 1..Len(ways) :
        Len(SelectSeq(ways[i].nd, LAMBDA id : id \in {1, 2})) >= 2}

\* C22: a way without node references, of missing nodes or with fewer than 2
\* resolvable nodes gets no line and no indicator and stops nothing: the lines
\* are those of the ways with at least 2 resolvable nodes, and every such way
\* (here each is admissible, and the cap is far) has its indicator.
C22_BadWaysAreSkipped ==
    fnRes # NoCall =>
        /\ Len(fnRes[1].lines) = Cardinality(Drawable(fnArg.ways))
        /\ {fnRes[1].arrows.added[k] : k \in 1..Len(fnRes[1].arrows.added)}
              = Drawable(fnArg.ways)

(***************************************************************************)
(* The placement of one indicator by createDirectionArrows: the length     *)
(* checks and the walk to one third of the arc length, on local documents  *)
(* whose way runs along axis-parallel segments (all lengths are integers)  *)
(* and whose nodes may carry a local_x that is no number.                  *)
(***************************************************************************)
\* most segments of a sample way
MaxSegments == 3

\* the step from one node to the next, (dx, dy)
SegmentSteps == {<<30, 0>>, <<0, 0>>, <<15, 0>>, <<0, 45>>, <<-15, 0>>}

StepLists == UNION {[1..n -> SegmentSteps] : n \in 1..MaxSegments}

RECURSIVE NodeAt(_, _)
\* (x, y) of node i + 1 of the way that starts at (0, 0) and takes the steps
NodeAt(steps, i) ==
    IF i = 0 THEN <<0, 0>>
    ELSE LET q == NodeAt(steps, i - 1)
         IN <<q[1] + steps[i][1], q[2] + steps[i][2]>>

\* the document: node k is the k-th node of the way; bad names the node whose
\* local_x is not a number (0: none)
PathSample(steps, bad) ==
    [nodes |-> [k \in 1..(Len(steps) + 1) |->
                   OsmNode(k, IF k = bad THEN Garbage ELSE Num(NodeAt(steps, k - 1)[1]),
                           Num(NodeAt(steps, k - 1)[2]), Absent, <<>>, Absent, Absent)],
     ways |-> <<OsmWay([k \in 1..(Len(steps) + 1) |-> k])>>]

\* which vertices of a way have a NaN component
NaNFlags(refs, nodeMap) ==
    LET resolved == SelectSeq(refs, LAMBDA id : id \in DOMAIN nodeMap)
    IN [k \in 1..Len(resolved) |->
           \/ nodeMap[resolved[k]].x.k = "nan"
           \/ nodeMap[resolved[k]].y.k = "nan"
           \/ nodeMap[resolved[k]].z.k = "nan"]

\* the checks before the walk, none of which skips on a NaN: `NaN < 25` is false
PassesLengthChecks(pts, nans) ==
    /\ Len(pts) >= 2
    /\ \/ nans[1] \/ nans[Len(pts)]
       \/ DistanceTo(pts[1], pts[Len(pts)]) >= MinPathLength
    /\ \/ \E k \in 1..Len(pts) : nans[k]
       \/ PathLength(pts, 1) >= MinPathLength
    /\ \/ nans[1] \/ nans[Len(pts)]
       \/ pts[1] # pts[Len(pts)]

RECURSIVE WalkToTarget(_, _, _, _)
\* the walk from segment j: targetDistance = totalLength / 3, and
\* segmentProgress = num / den where the walk stops
WalkToTarget(pts, j, currentDistance, totalLength) ==
    IF j >= Len(pts) THEN [found |-> FALSE, j |-> 0, num |-> 0, den |-> 1]
    ELSE LET segmentLength == DistanceTo(pts[j], pts[j + 1])
         IN IF 3 * (currentDistance + segmentLength) >= totalLength
            THEN [found |-> TRUE, j |-> j,
                  num |-> totalLength - 3 * currentDistance, den |-> 3 * segmentLength]
            ELSE WalkToTarget(pts, j + 1, currentDistance + segmentLength, totalLength)

\* arrowPosition after the walk, times scale.  With a NaN vertex the target is
\* NaN, no comparison succeeds and the position stays new Vector3(): (0, 0, 0).
ArrowPosition(pts, nans) ==
    LET w == IF \E k \in 1..Len(pts) : nans[k]
             THEN [found |-> FALSE, j |-> 0, num |-> 0, den |-> 1]
             ELSE WalkToTarget(pts, 1, 0, PathLength(pts, 1))
    IN IF w.found /\ w.den > 0
       THEN [walk |-> w, scale |-> w.den,
             at |-> [c \in 1..3 |-> w.den * pts[w.j][c]
                                    + (pts[w.j + 1][c] - pts[w.j][c]) * w.num]]
       ELSE [walk |-> w, scale |-> 1, at |-> <<0, 0, 0>>]

InitPlace ==
    /\ InitMain
    /\ showDirections = TRUE
    /\ fnArg \in {[fn |-> "place", steps |-> st, bad |-> b] :
                     st \in StepLists, b \in 0..2}
    /\ fnRes = NoCall

\* one pass of the ways loop of createDirectionArrows on the sample's way
ApplyPlaceArrow ==
    /\ fnArg # NoCall /\ fnRes = NoCall
    /\ LET osm == PathSample(fnArg.steps, fnArg.bad)
           nodeMap == Classify(osm.nodes).nodeMap
           pts == ArrowPointsFrom(osm.ways[1].nd, 1,
                                  [nodeMap |-> nodeMap, usingProj4 |-> FALSE,
                                   cfg |-> IdentityProj, norm |-> NoNorm,
                                   flipY |-> vectorFlipY])
           nans == NaNFlags(osm.ways[1].nd, nodeMap)
       IN fnRes' = <<[pts |-> pts, nans |-> nans,
                      admitted |-> PassesLengthChecks(pts, nans),
                      arrow |-> ArrowPosition(pts, nans)]>>
    /\ UNCHANGED <<mainVars, fnArg>>

SpecPlace == InitPlace /\ [][ApplyPlaceArrow]_vars

Abs(n) == IF n < 0 THEN 0 - n ELSE n

\* the arc length, times scale, from the first vertex along the polyline to the
\* point `at` of segment j (the segments are axis-parallel)
ArcLengthTo(pts, j, at, scale) ==
    scale * PathLength(SubSeq(pts, 1, j), 1)
    + Abs(at[1] - scale * pts[j][1]) + Abs(at[2] - scale * pts[j][2])
    + Abs(at[3] - scale * pts[j][3])

\* `at` lies between vertex j and vertex j + 1
OnSegment(pts, j, at, scale) ==
    \A c \in 1..3 :
        \/ scale * pts[j][c] <= at[c] /\ at[c] <= scale * pts[j + 1][c]
        \/ scale * pts[j + 1][c] <= at[c] /\ at[c] <= scale * pts[j][c]

\* C23: the indicator of every way that passes the length checks lies on the
\* polyline at one third of the total arc length from the first vertex, in the
\* first segment whose end is at or beyond that length.
C23_IndicatorAtOneThird ==
    (fnRes # NoCall /\ fnRes[1].admitted) =>
        LET pts == fnRes[1].pts
            a == fnRes[1].arrow
            j == a.walk.j
        IN /\ a.walk.found
           /\ OnSegment(pts, j, a.at, a.scale)
           /\ 3 * ArcLengthTo(pts, j, a.at, a.scale) = a.scale * PathLength(pts, 1)
           /\ \A k \in 1..(j - 1) :
                  3 * PathLength(SubSeq(pts, 1, k + 1), 1) < PathLength(pts, 1)

\* C30: for every way that passes the length checks the walk finds a segment,
\* that segment has positive length, and the interpolation parameter is in [0, 1].
C30_WalkFindsPositiveSegment ==
    (fnRes # NoCall /\ fnRes[1].admitted) =>
        LET w == fnRes[1].arrow.walk
        IN /\ w.found
           /\ w.den > 0
           /\ 0 <= w.num /\ w.num <= w.den

(***************************************************************************)
(* The origin source of the diagnostics (layerStats.originSource), on the  *)
(* documents of SpecLanelet.                                               *)
(***************************************************************************)
\* the priority level that supplied the origin of a call of loadLanelet, under
\* the names the diagnostics show
SupplyingLevel(r, propOrigin, originOverride, tempOrigin) ==
    IF ~r.usingProj4 THEN "none"
    ELSE IF propOrigin.present THEN "map_config"
    ELSE IF originOverride.present \/ tempOrigin.present THEN "map_config (TEMP)"
    ELSE IF r.setsNormOrigin /\ r.originSource = "none" THEN "none"
    ELSE "centroid-fallback"

\* C25: the origin source of the diagnostics names the level that supplied the
\* normalization origin: "map_config" for the mapOrigin prop, "map_config (TEMP)"
\* for the origin parsed from the loaded map config, "centroid-fallback" for the
\* centroid, "none" for a document without normalization origin.
C25_OriginSourceNamesLevel ==
    fnRes # NoCall =>
        fnRes[1].r.originSource
            = SupplyingLevel(fnRes[1].r, fnArg.prop, fnArg.override, fnArg.temp)

(***************************************************************************)
(* The camera fit and the final status of superseded sequences.            *)
(***************************************************************************)
\* C26: a sequence that is no longer the latest one issued never calls
\* fitSceneToContents (so it moves neither camera, target nor clip planes) and
\* never sets the status "Map reloaded successfully!".
C26_SupersededNeverFits ==
    [][\A t \in Tokens :
           (seqs[t].pc # "idle" /\ seqs'[t] # seqs[t] /\ t # loadToken)
           => /\ seqs'[t].pc # "done"
              /\ status' = "Map reloaded successfully!" => status' = status
      ]_vars

\* C26 witness: a superseded reload has returned at its last token check, before
\* the fit, and the status is not the final status of a reload
C26_SupersededReturnedBeforeFit ==
    \E t \in Tokens :
        /\ t < loadToken
        /\ seqs[t].pc = "abandoned" /\ seqs[t].atFit /\ seqs[t].kind = "reload"
        /\ status # "Map reloaded successfully!"

(***************************************************************************)
(* The loading flags while loads of several sequences overlap.             *)
(***************************************************************************)
\* a loadPointCloud call is between its start and its return
PointCloudLoadInFlight == \E t \in Tokens : seqs[t].pc = "pcd"

\* a loadLanelet call is between its start and its return
VectorMapLoadInFlight == \E t \in Tokens : seqs[t].pc = "osm"

\* C27: the loading flag of a layer is true in every state in which a load of
\* that layer is in flight, also when the loads of two sequences overlap.
C27_FlagTrueWhileLoading ==
    /\ PointCloudLoadInFlight => isLoadingPointCloud
    /\ VectorMapLoadInFlight => isLoadingVectorMap

(***************************************************************************)
(* The content of the direction layer under toggles, reloads and yields.   *)
(***************************************************************************)
\* C24: in every state the direction layer holds at most 100 indicators; they
\* are indicators of ways of one file, each way at most once and in the order
\* of the ways; and once the latest load is done that file is the vector map
\* this load has loaded.
C24_AtMostOneIndicatorPerWay ==
    LET ind == IndicatorsOf(directionGroup)
    IN /\ Len(ind) <= MaxArrows
       /\ \A i, j \in 1..Len(ind) :
              i < j => ind[i].file = ind[j].file /\ ind[i].idx < ind[j].idx
       /\ \A t \in Tokens :
              (t = loadToken /\ seqs[t].pc = "done")
                  => \A i \in 1..Len(ind) :
                         \E b \in vectorGroup : b.by = t /\ b.file = ind[i].file

(***************************************************************************)
(* The range of the zone that deriveUtmEpsgFromSample writes.              *)
(***************************************************************************)
\* C28: for every latitude, every longitude in [-180, 180] and every grid code
\* the identifier is EPSG:326 or EPSG:327 followed by exactly two digits that
\* read as a zone in 1..60.
C28_ZoneInRange ==
    fnRes # NoCall =>
        LET id == fnRes[1]
        IN /\ Len(id) = 3
           /\ id[1] \in {"EPSG:326", "EPSG:327"}
           /\ id[2] \in DOMAIN DecimalDigit /\ id[3] \in DOMAIN DecimalDigit
           /\ 10 * DecimalDigit[id[2]] + DecimalDigit[id[3]] \in 1..60

(***************************************************************************)
(* Two calls of fitSceneToContents in a row on the same geometry, with the *)
(* camera as a position, a viewing direction and a target.  Directions are *)
(* the horizontal axis directions, so that every coordinate is an integer; *)
(* positions are kept doubled (the distance is 2.5 times the radius).      *)
(***************************************************************************)
\* unit vectors a camera of the samples looks along
AxisDirections == {<<1, 0, 0>>, <<-1, 0, 0>>, <<0, 0, 1>>, <<0, 0, -1>>}

\* a camera 60 away from the target (0, 0, 0), looking at it along d
AimedCamera(d) ==
    [position2 |-> <<-120 * d[1], -120 * d[2], -120 * d[3]>>, direction |-> d,
     target |-> <<0, 0, 0>>, near100 |-> 10, far50 |-> 2000000]

\* the bounding-sphere radii of the scenes fitted twice
RefitRadii == {0, 4, 6, 200, FitGuardRadius, FitGuardRadius + 2}

\* the sign of each component of target - position: the direction of a camera
\* that looks at the target from a position on an axis through it
DirectionTo(position2, target) ==
    [c \in 1..3 |-> IF 2 * target[c] > position2[c] THEN 1
                    ELSE IF 2 * target[c] < position2[c] THEN -1 ELSE 0]

\* fitSceneToContents from the bounds check on, with controls.update() at its end
\* re-aiming the camera at the target (OrbitControls: camera.lookAt(target))
FitThenAim(camera, scene) ==
    IF ~scene.hasGeometry \/ RadiusGuard(scene.radius) THEN camera
    ELSE LET effectiveRadius == Max(scene.radius, MinRadius)
             currentDirection == camera.direction
             position2 == [c \in 1..3 |-> 2 * scene.center[c]
                                          + currentDirection[c] * 5 * effectiveRadius]
         IN [position2 |-> position2,
             direction |-> DirectionTo(position2, scene.center),
             target |-> scene.center,
             near100 |-> Max(10, effectiveRadius),
             far50 |-> Max(20, effectiveRadius)]

InitRefit ==
    /\ InitMain
    /\ showDirections = FALSE
    /\ fnArg \in {[fn |-> "refit", camera |-> AimedCamera(d),
                   scene |-> [hasGeometry |-> g, center |-> ctr, radius |-> rad]] :
                     d \in AxisDirections, g \in BOOLEAN,
                     ctr \in {<<0, 0, 0>>, <<100, 0, -50>>}, rad \in RefitRadii}
    /\ fnRes = NoCall

\* the first call
ApplyFirstFit ==
    /\ fnArg # NoCall /\ fnRes = NoCall
    /\ fnRes' = <<FitThenAim(fnArg.camera, fnArg.scene)>>
    /\ UNCHANGED <<mainVars, fnArg>>

\* the second call, on the camera the first call left
ApplySecondFit ==
    /\ fnArg # NoCall /\ Len(fnRes) = 1
    /\ fnRes' = Append(fnRes, FitThenAim(fnRes[1], fnArg.scene))
    /\ UNCHANGED <<mainVars, fnArg>>

SpecRefit == InitRefit /\ [][ApplyFirstFit \/ ApplySecondFit]_vars

\* C29: a fit leaves the camera looking along the direction it had, and a
\* second fit of the same geometry leaves position, target and clip planes as the
\* first fit left them.
C29_FitKeepsDirectionAndIsIdempotent ==
    /\ Len(fnRes) >= 1 => fnRes[1].direction = fnArg.camera.direction
    /\ Len(fnRes) = 2 => fnRes[2] = fnRes[1]

====
